---- MODULE Spec2Model ----
(***************************************************************************)
(* A model of the OpenVBI ingestion core: packet statistics and the        *)
(* time-source selector (core/statistics.py, core/timebase.py), the raw    *)
(* observation classes (core/observations.py), the interpolation table     *)
(* (core/interpolation.py), the YDVR loader (adaptors/ydvr.py), the WIBL   *)
(* binary packet factory (adaptors/logger_file.py, adaptors/wibl.py) and   *)
(* the CSB download cache (cache/dcdb.py).                                 *)
(*                                                                         *)
(* Each component has its own specification (SpecStats, SpecStatsCalls,    *)
(* SpecTimebase, SpecYDVR, SpecYdvrRead, SpecInterp, SpecInterpQuery,      *)
(* SpecFactory, SpecWIBLLoad, SpecRoundTrip, SpecAccess, SpecCache); the   *)
(* variables of the components a specification does not exercise stay at   *)
(* their idle value.                                                       *)
(***************************************************************************)
EXTENDS Integers, Sequences, FiniteSets, TLC

VARIABLES
    pc,                 \* which phase the exercised component is in
    stats,              \* PktStats.packets: registered name -> StatCounters
    packets,            \* Dataset.packets / the messages given to generate_timebase
    timesrc,            \* Dataset.timesrc, or the exception determine_time_source raised
    timebase,           \* Dataset.timebase: the InterpTable generate_timebase returned
    elapsed_offset,     \* ydvr.load_data local
    last_elapsed_mark,  \* ydvr.load_data local
    frames,             \* ydvr.load_data: history of the frames read (raw and given elapsed)
    table,              \* an InterpTable's vars dictionary
    table_op,           \* the outcome of the last InterpTable call
    file,               \* the bytes of the file a PacketFactory reads
    pos,                \* the file position
    end_of_file,        \* PacketFactory.end_of_file
    log,                \* history of the next_packet or accessor calls made
    written,            \* the packet handed to serialise, or None
    listing,            \* the CSB index: the items (file names) of each result page
    page,               \* _iterate_pages local
    total_pages,        \* _iterate_pages local, NoPages for None
    requested,          \* history of the pages asked of the index
    next_item,          \* _perform_request: position in body["items"]
    tasks,              \* the download tasks submitted to the executor, in order
    cache_dir           \* the cache directory: file name -> absent, partial or complete

vars == << pc, stats, packets, timesrc, timebase, elapsed_offset, last_elapsed_mark,
           frames, table, table_op, file, pos, end_of_file, log, written,
           listing, page, total_pages, requested, next_item, tasks, cache_dir >>

cacheVars == << listing, page, total_pages, requested, next_item, tasks, cache_dir >>

dataVars   == << stats, packets, timesrc, timebase >>
ydvrVars   == << elapsed_offset, last_elapsed_mark, frames >>
interpVars == << table, table_op >>
pfVars     == << file, pos, end_of_file, log, written >>

\* The empty dictionary {}
EmptyDict == [n \in {} |-> 0]

Max(a, b) == IF a >= b THEN a ELSE b
Min(a, b) == IF a <= b THEN a ELSE b

(***************************************************************************)
(* core/statistics.py                                                      *)
(***************************************************************************)

\* Number of Observed/Fault calls explored on one PktStats
MaxStatOps == 3

\* Names the statistics are exercised with: the four time sources and one other
StatNames == {"SystemTime", "GNSS", "ZDA", "RMC", "Depth"}

PktFaults == {"ParseFault", "ShortMessage", "DecodeFault", "AttributeFault",
              "TypeFault", "ChecksumFault"}

StatCounters == [observed |-> 0, parse_fault |-> 0, short_msg |-> 0, decode_fault |-> 0,
                 attrib_fault |-> 0, type_fault |-> 0, chksum_fault |-> 0]

\* StatCounters.FaultCount
CountersFaultCount(c) ==
    c.parse_fault + c.short_msg + c.decode_fault + c.attrib_fault + c.type_fault + c.chksum_fault

\* PktStats.EnsureName
EnsureName(s, name) == IF name \in DOMAIN s THEN s ELSE (name :> StatCounters) @@ s

\* An Observed that registers the name without counting
StatsObserved_register_only(s, name) == EnsureName(s, name)

\* PktStats.Observed
StatsObserved(s, name) ==
    LET e == EnsureName(s, name)
    IN  [e EXCEPT ![name].observed = @ + 1]

\* A Fault that counts every kind as a parse fault
StatsFault_parse_only(s, name, fault) ==
    LET e == EnsureName(s, name)
    IN  [e EXCEPT ![name].parse_fault = @ + 1]

\* PktStats.Fault (fault is always one of the six PktFaults members here)
StatsFault(s, name, fault) ==
    LET e == EnsureName(s, name)
    IN  CASE fault = "ParseFault"     -> [e EXCEPT ![name].parse_fault = @ + 1]
          [] fault = "ShortMessage"   -> [e EXCEPT ![name].short_msg = @ + 1]
          [] fault = "DecodeFault"    -> [e EXCEPT ![name].decode_fault = @ + 1]
          [] fault = "AttributeFault" -> [e EXCEPT ![name].attrib_fault = @ + 1]
          [] fault = "TypeFault"      -> [e EXCEPT ![name].type_fault = @ + 1]
          [] fault = "ChecksumFault"  -> [e EXCEPT ![name].chksum_fault = @ + 1]

\* PktStats.Seen
Seen(s, name) == name \in DOMAIN s

\* PktStats.TotalCount: the loop over self.packets, summing observed
RECURSIVE TotalCountOver(_, _)
TotalCountOver(s, names) ==
    IF names = {} THEN 0
    ELSE LET n == CHOOSE x \in names : TRUE
         IN  s[n].observed + TotalCountOver(s, names \ {n})

TotalCount(s) == TotalCountOver(s, DOMAIN s)

\* A FaultCount that gives 0 for a name not registered
PktStats_FaultCount_zero(s, name) ==
    IF name \notin DOMAIN s THEN [raised |-> "none", rtn |-> 0]
    ELSE [raised |-> "none", rtn |-> CountersFaultCount(s[name])]

\* PktStats.FaultCount as a call: [raised, rtn]
PktStats_FaultCount(s, name) ==
    IF name \notin DOMAIN s THEN [raised |-> "NoSuchPacket", rtn |-> 0]
    ELSE [raised |-> "none", rtn |-> CountersFaultCount(s[name])]

\* PktStats.FaultCount: the count, or "NoSuchPacket" when it raises
FaultCount(s, name) ==
    IF name \notin DOMAIN s THEN "NoSuchPacket" ELSE CountersFaultCount(s[name])

\* The sum of FaultCount(name) over a set of registered names
RECURSIVE TotalFaultsOver(_, _)
TotalFaultsOver(s, names) ==
    IF names = {} THEN 0
    ELSE LET n == CHOOSE x \in names : TRUE
         IN  FaultCount(s, n) + TotalFaultsOver(s, names \ {n})

TotalFaults(s) == TotalFaultsOver(s, DOMAIN s)

(***************************************************************************)
(* core/timebase.py: determine_time_source                                 *)
(***************************************************************************)

TimeSources == {"Time_SysTime", "Time_GNSS", "Time_ZDA", "Time_RMC"}

\* determine_time_source with the preference order changed (GNSS before SystemTime)
determine_time_source_swapped(s) ==
    IF Seen(s, "GNSS") THEN "Time_GNSS"
    ELSE IF Seen(s, "SystemTime") THEN "Time_SysTime"
    ELSE IF Seen(s, "ZDA") THEN "Time_ZDA"
    ELSE IF Seen(s, "RMC") THEN "Time_RMC"
    ELSE "NoTimeSource"

\* determine_time_source: the TimeSource returned, or "NoTimeSource" when it raises
determine_time_source(s) ==
    IF Seen(s, "SystemTime") THEN "Time_SysTime"
    ELSE IF Seen(s, "GNSS") THEN "Time_GNSS"
    ELSE IF Seen(s, "ZDA") THEN "Time_ZDA"
    ELSE IF Seen(s, "RMC") THEN "Time_RMC"
    ELSE "NoTimeSource"

(***************************************************************************)
(* core/interpolation.py: InterpTable                                      *)
(* A table is its vars dictionary: variable name -> list of values.  A     *)
(* call returns [raised, vars]: the exception raised ("none" when it       *)
(* returns) and the dictionary after the call.                             *)
(***************************************************************************)

\* InterpTable.__init__: 'ind' is registered implicitly
InterpTable(vs) == [n \in {"ind"} \cup vs |-> << >>]

\* InterpTable.add_point
add_point(t, ind, var, value) ==
    IF var \notin DOMAIN t
    THEN [raised |-> "NoSuchVariable", vars |-> t]
    ELSE LET t1 == [t EXCEPT !["ind"] = Append(@, ind)]
         IN  [raised |-> "none", vars |-> [t1 EXCEPT ![var] = Append(@, value)]]

\* The loop of add_points: self.vars[vars[n]].append(values[n]) for n from k
RECURSIVE AppendEach(_, _, _, _)
AppendEach(t, names, values, k) ==
    IF k > Len(names) THEN t
    ELSE AppendEach([t EXCEPT ![names[k]] = Append(@, values[k])], names, values, k + 1)

\* An add_points that appends the independent value before its checks
add_points_append_first(t, ind, names, values) ==
    IF \E k \in 1..Len(names) : names[k] \notin DOMAIN t
    THEN [raised |-> "NoSuchVariable", vars |-> [t EXCEPT !["ind"] = Append(@, ind)]]
    ELSE IF Len(names) # Len(values)
    THEN [raised |-> "NotEnoughValues", vars |-> [t EXCEPT !["ind"] = Append(@, ind)]]
    ELSE [raised |-> "none",
          vars |-> AppendEach([t EXCEPT !["ind"] = Append(@, ind)], names, values, 1)]

\* InterpTable.add_points
add_points(t, ind, names, values) ==
    IF \E k \in 1..Len(names) : names[k] \notin DOMAIN t
    THEN [raised |-> "NoSuchVariable", vars |-> t]
    ELSE IF Len(names) # Len(values)
    THEN [raised |-> "NotEnoughValues", vars |-> t]
    ELSE [raised |-> "none",
          vars |-> AppendEach([t EXCEPT !["ind"] = Append(@, ind)], names, values, 1)]

\* InterpTable.n_points
n_points(t) == Len(t["ind"])

\* InterpTable.var: the values, or "NoSuchVariable" when it raises
var(t, name) == IF name \notin DOMAIN t THEN "NoSuchVariable" ELSE t[name]

\* InterpTable.ind
ind(t) == t["ind"]

(***************************************************************************)
(* core/observations.py: the three observation classes.  An observation    *)
(* is [kind, elapsed, name, hastime, data]; a constructor returns the      *)
(* observation or [kind |-> "BadData"] when it raises BadData.  The field  *)
(* decoders of marulc are external: an input carries what the decoder does *)
(* with it (its exception, or the fields it returns).                      *)
(***************************************************************************)

seconds_per_day == 86400

BadData == [kind |-> "BadData"]

\* RawObs.__init__
RawObs(kind, elapsed, name, hastime, data) ==
    [kind |-> kind, elapsed |-> elapsed, name |-> name, hastime |-> hastime, data |-> data]

\* RawN0183Obs.__init__; message is what parser.unpack does with the sentence:
\* [unpack, Formatter, Fields], unpack being "ok" or the exception raised
RawN0183Obs(elapsed, message) ==
    IF message.unpack \in {"ChecksumError", "ParseError"}
    THEN BadData
    ELSE RawObs("RawN0183Obs", elapsed, message.Formatter,
                message.Formatter = "ZDA" \/ message.Formatter = "RMC", message)

\* get_description_for_pgn of marulc for the PGNs drawn here: the description, or
\* "ValueError" when the PGN is not in its database
PGNDescription(pgn) ==
    CASE pgn = 126992 -> "System Time"
      [] pgn = 128267 -> "Water Depth"
      [] pgn = 129025 -> "Position, Rapid Update"
      [] pgn = 129029 -> "GNSS Position Data"
      [] pgn = 130316 -> "Temperature Extended Range"
      [] OTHER -> "ValueError"

\* The name RawN2000Obs.__init__ gives a PGN
N2000Name(pgn, fields) ==
    IF pgn = 126992 THEN "SystemTime"
    ELSE IF pgn = 127257 THEN "Attitude"
    ELSE IF pgn = 128267 THEN "Depth"
    ELSE IF pgn = 129026 THEN "COG"
    ELSE IF pgn = 129029 THEN "GNSS"
    ELSE IF pgn = 130577 THEN "DirectionData"
    ELSE IF pgn = 130316 /\ fields.source = 0 THEN "WaterTemperature"
    ELSE IF PGNDescription(pgn) = "ValueError" THEN "Unrecognized"
    ELSE PGNDescription(pgn)

\* The has_time flag RawN2000Obs.__init__ gives a PGN
N2000HasTime(pgn) == pgn = 126992

\* The exceptions of unpack_complete_message that RawN2000Obs.__init__ turns into BadData
N2000Caught == {"KeyError", "PGNError", "ParseError", "bitstruct.Error", "TypeError"}

\* RawN2000Obs.__init__; message is what unpack_complete_message does with the
\* payload: [unpack, PGN, Fields], unpack being "ok" or the exception raised.
\* An exception the constructor does not catch leaves it: [kind |-> "Raised", exc]
RawN2000Obs(elapsed, pgn, message) ==
    IF message.unpack \in N2000Caught
    THEN BadData
    ELSE IF message.unpack # "ok"
    THEN [kind |-> "Raised", exc |-> message.unpack]
    ELSE RawObs("RawN2000Obs", elapsed, N2000Name(pgn, message.Fields),
                N2000HasTime(pgn), message)

\* ParsedN2000.__init__; data is a decoded logger packet
ParsedN2000(elapsed, data) ==
    RawObs("ParsedN2000", elapsed, data.name,
           data.name = "SystemTime" \/ data.name = "GNSS", data)

HasTime(obs) == obs.hastime
Elapsed(obs) == obs.elapsed
Name(obs)    == obs.name

\* MatchesTimeSource of the three classes
MatchesTimeSource(obs, source) ==
    IF ~HasTime(obs) THEN FALSE
    ELSE IF obs.kind = "RawN0183Obs"
    THEN \/ Name(obs) = "ZDA" /\ source = "Time_ZDA"
         \/ Name(obs) = "RMC" /\ source = "Time_RMC"
    ELSE \/ Name(obs) = "SystemTime" /\ source = "Time_SysTime"
         \/ Name(obs) = "GNSS" /\ source = "Time_GNSS"

\* Timestamp of the three classes.  The calendar fields of a ZDA or RMC sentence
\* are carried as a day number and the seconds of the day, in UTC.
Timestamp(obs) ==
    IF ~HasTime(obs) THEN -1
    ELSE IF obs.kind = "RawN0183Obs"
    THEN obs.data.Fields.day * seconds_per_day + obs.data.Fields.timestamp
    ELSE IF obs.kind = "RawN2000Obs"
    THEN IF Name(obs) = "SystemTime"
         THEN obs.data.Fields.date * seconds_per_day + obs.data.Fields.time
         ELSE IF Name(obs) = "GNSS"
         THEN obs.data.Fields.msg_date * seconds_per_day + obs.data.Fields.msg_time
         ELSE -1
    ELSE IF Name(obs) = "SystemTime"
         THEN obs.data.date * seconds_per_day + obs.data.timestamp
         ELSE IF Name(obs) = "GNSS"
         THEN obs.data.msg_date * seconds_per_day + obs.data.msg_timestamp
         ELSE -1

(***************************************************************************)
(* core/observations.py: Depth, Position and WaterTemperature of the three *)
(* classes, and core/unit_conversion.py.  A call comes to [exc, v]: the    *)
(* exception raised ("none" when it returns) and the value returned.       *)
(* Angles are in minutes of arc and temperatures in hundredths of a        *)
(* kelvin, so that the conversions stay within the integers.               *)
(***************************************************************************)

Returns(v) == [exc |-> "none", v |-> v]

Raises(exc) == [exc |-> exc, v |-> 0]

\* to_temperature_kelvin for a whole number of degrees
to_temperature_kelvin(in_temp, unit) ==
    IF unit \in {"K", "k"} THEN Returns(in_temp * 100)
    ELSE IF unit \in {"C", "c"} THEN Returns(in_temp * 100 + 27315)
    ELSE IF unit \in {"F", "f"} THEN Returns(((in_temp - 32) * 500) \div 9 + 27315)
    ELSE Raises("ValueError")

\* int(raw/100) + (raw % 100)/60 of a ddmm value, with the sign of the hemisphere
DegreesOfDDMM(raw, dir, negative) ==
    LET minutes == (raw \div 100) * 60 + (raw % 100)
    IN  IF dir = negative THEN 0 - minutes ELSE minutes

ObsDepth(obs) ==
    IF obs.kind = "RawN0183Obs"
    THEN IF Name(obs) # "DPT" /\ Name(obs) # "DBT" THEN Raises("BadData")
         ELSE Returns(obs.data.Fields.depth_meters)
    ELSE IF obs.kind = "RawN2000Obs"
    THEN IF Name(obs) # "Depth" THEN Raises("BadData")
         ELSE Returns(obs.data.Fields.depth)
    ELSE IF Name(obs) # "Depth" THEN Raises("BadData")
         ELSE Returns(obs.data.depth)

ObsPosition(obs) ==
    IF obs.kind = "RawN0183Obs"
    THEN IF Name(obs) # "GGA" THEN Raises("BadData")
         ELSE IF ~obs.data.Fields.is_float THEN Raises("BadData")
         ELSE Returns(<< DegreesOfDDMM(obs.data.Fields.lon, obs.data.Fields.lon_dir, "W"),
                         DegreesOfDDMM(obs.data.Fields.lat, obs.data.Fields.lat_dir, "S") >>)
    ELSE IF obs.kind = "RawN2000Obs"
    THEN IF Name(obs) \in {"GNSS", "Position, Rapid Update"}
         THEN Returns(<< obs.data.Fields.longitude, obs.data.Fields.latitude >>)
         ELSE Raises("BadData")
    ELSE IF Name(obs) # "GNSS" THEN Raises("BadData")
         ELSE Returns(<< obs.data.longitude, obs.data.latitude >>)

ObsWaterTemperature(obs) ==
    IF obs.kind = "RawN0183Obs"
    THEN IF Name(obs) # "MTW" THEN Raises("BadData")
         ELSE to_temperature_kelvin(obs.data.Fields.temperature, obs.data.Fields.units)
    ELSE IF obs.kind = "RawN2000Obs"
    THEN IF Name(obs) # "WaterTemperature" THEN Raises("BadData")
         ELSE to_temperature_kelvin(obs.data.Fields.temperature, "K")
    ELSE IF Name(obs) # "WaterTemperature" THEN Raises("BadData")
         ELSE IF obs.data.tempSource # 0 THEN Raises("BadData")
         ELSE Returns(obs.data.temperature)

\* One of the four accessors called on an observation
Accessors == {"Depth", "Position", "WaterTemperature", "Timestamp"}

CallAccessor(obs, accessor) ==
    CASE accessor = "Depth" -> ObsDepth(obs)
      [] accessor = "Position" -> ObsPosition(obs)
      [] accessor = "WaterTemperature" -> ObsWaterTemperature(obs)
      [] accessor = "Timestamp" -> Returns(Timestamp(obs))

(***************************************************************************)
(* core/interpolation.py: interpolate.  np.interp(x, xp, fp) for a single  *)
(* x: the outcomes numpy can give, each [exc, v] with v the fraction       *)
(* num/den.  numpy raises ValueError for no sample points and for xp and   *)
(* fp of different lengths; for xp that is not increasing its result is    *)
(* not specified, and is taken as any of the fp.                           *)
(***************************************************************************)

Fraction(num, den) == [num |-> num, den |-> den]

Increasing(xp) == \A i \in 1 .. Len(xp) - 1 : xp[i] < xp[i + 1]

\* An np.interp that continues the last segment beyond the nodes
np_interp_extrapolating(x, xp, fp) ==
    IF Len(xp) = 0 \/ Len(fp) # Len(xp)
    THEN { [exc |-> "ValueError", v |-> Fraction(0, 1)] }
    ELSE IF Len(xp) = 1 \/ ~Increasing(xp)
    THEN { [exc |-> "none", v |-> Fraction(fp[i], 1)] : i \in 1 .. Len(fp) }
    ELSE LET Along(i) ==
                 Fraction(fp[i] * (xp[i + 1] - xp[i]) + (x - xp[i]) * (fp[i + 1] - fp[i]),
                          xp[i + 1] - xp[i])
         IN  { [exc |-> "none",
                v |-> Along(IF x < xp[1] THEN 1
                            ELSE IF x >= xp[Len(xp)] THEN Len(xp) - 1
                            ELSE CHOOSE i \in 1 .. Len(xp) - 1 : xp[i] <= x /\ x < xp[i + 1])] }

np_interp(x, xp, fp) ==
    IF Len(xp) = 0 \/ Len(fp) # Len(xp)
    THEN { [exc |-> "ValueError", v |-> Fraction(0, 1)] }
    ELSE IF ~Increasing(xp)
    THEN { [exc |-> "none", v |-> Fraction(fp[i], 1)] : i \in 1 .. Len(fp) }
    ELSE IF x <= xp[1]
    THEN { [exc |-> "none", v |-> Fraction(fp[1], 1)] }
    ELSE IF x >= xp[Len(xp)]
    THEN { [exc |-> "none", v |-> Fraction(fp[Len(fp)], 1)] }
    ELSE LET Between(i) ==
                 Fraction(fp[i] * (xp[i + 1] - xp[i]) + (x - xp[i]) * (fp[i + 1] - fp[i]),
                          xp[i + 1] - xp[i])
         IN  { [exc |-> "none",
                v |-> Between(CHOOSE i \in 1 .. Len(xp) - 1 : xp[i] <= x /\ x < xp[i + 1])] }

\* The second loop of interpolate from yvars[k] on: the lists it can build, or the
\* exception of the first np.interp that raises
RECURSIVE InterpEach(_, _, _, _)
InterpEach(t, yvars, x, k) ==
    IF k > Len(yvars) THEN { [exc |-> "none", v |-> << >>] }
    ELSE UNION { IF o.exc # "none"
                 THEN { [exc |-> o.exc, v |-> << >>] }
                 ELSE { IF rest.exc # "none" THEN rest
                        ELSE [exc |-> "none", v |-> << o.v >> \o rest.v] :
                            rest \in InterpEach(t, yvars, x, k + 1) } :
                 o \in np_interp(x, t["ind"], t[yvars[k]]) }

\* An interpolate that empties the sequences it has read
interpolate_consuming(t, yvars, x) ==
    IF \E k \in 1 .. Len(yvars) : yvars[k] \notin DOMAIN t
    THEN { [raised |-> "NoSuchVariable", rtn |-> << >>, vars |-> t] }
    ELSE { [raised |-> r.exc, rtn |-> r.v,
            vars |-> [n \in DOMAIN t |-> IF \E k \in 1 .. Len(yvars) : yvars[k] = n
                                         THEN << >> ELSE t[n]]] :
             r \in InterpEach(t, yvars, x, 1) }

\* InterpTable.interpolate: the outcomes [raised, rtn, vars] it can have, vars being
\* the table after the call
interpolate(t, yvars, x) ==
    IF \E k \in 1 .. Len(yvars) : yvars[k] \notin DOMAIN t
    THEN { [raised |-> "NoSuchVariable", rtn |-> << >>, vars |-> t] }
    ELSE { [raised |-> r.exc, rtn |-> r.v, vars |-> t] : r \in InterpEach(t, yvars, x, 1) }

(***************************************************************************)
(* core/timebase.py: generate_timebase                                     *)
(***************************************************************************)

\* The condition with the test of the source left out
TimebaseSelectsAnyTime(message, source) == HasTime(message)

\* The condition under which generate_timebase inserts a message
TimebaseSelects(message, source) == HasTime(message) /\ MatchesTimeSource(message, source)

\* The loop of generate_timebase from message k on
RECURSIVE TimebaseLoop(_, _, _, _)
TimebaseLoop(t, messages, source, k) ==
    IF k > Len(messages) THEN t
    ELSE IF TimebaseSelects(messages[k], source)
    THEN TimebaseLoop(add_point(t, Elapsed(messages[k]), "ref", Timestamp(messages[k])).vars,
                      messages, source, k + 1)
    ELSE TimebaseLoop(t, messages, source, k + 1)

generate_timebase(messages, source) == TimebaseLoop(InterpTable({"ref"}), messages, source, 1)

(***************************************************************************)
(* adaptors/logger_file.py: the struct module as the packet decoders use   *)
(* it.  A buffer is a sequence of bytes (0..255); a format is the sequence *)
(* of its codes after '<' (little-endian, no padding).                     *)
(***************************************************************************)

Zeros(n) == [i \in 1..n |-> 0]

U8(buffer, base)  == buffer[base + 1]
U16(buffer, base) == buffer[base + 1] + 256 * buffer[base + 2]
U32(buffer, base) ==
    buffer[base + 1] + 256 * buffer[base + 2] + 65536 * buffer[base + 3]
        + 16777216 * buffer[base + 4]

\* int.to_bytes(2 / 4, 'little'), as serialise and struct.pack write them
LE16(n) == << n % 256, (n \div 256) % 256 >>
LE32(n) == << n % 256, (n \div 256) % 256, (n \div 65536) % 256, (n \div 16777216) % 256 >>

\* The IEEE-754 values of the byte patterns drawn; any other pattern is kept as its bytes
Float(bytes) ==
    CASE bytes = Zeros(Len(bytes)) -> 0
      [] bytes = << 0, 0, 0, 0, 0, 0, 240, 63 >> -> 1
      [] bytes = << 0, 0, 0, 0, 0, 0, 0, 64 >> -> 2
      [] bytes = << 0, 0, 128, 63 >> -> 1
      [] bytes = << 0, 0, 0, 64 >> -> 2
      [] OTHER -> [ieee |-> bytes]

\* struct.calcsize of one format code
CodeSize(c) ==
    CASE c = "B" -> 1
      [] c \in {"H", "h"} -> 2
      [] c \in {"I", "f"} -> 4
      [] c = "d" -> 8

RECURSIVE calcsize(_)
calcsize(fmt) == IF fmt = << >> THEN 0 ELSE CodeSize(Head(fmt)) + calcsize(Tail(fmt))

\* The value of one format code at an offset
CodeValue(c, buffer, base) ==
    CASE c = "B" -> U8(buffer, base)
      [] c = "H" -> U16(buffer, base)
      [] c = "h" -> IF U16(buffer, base) >= 32768 THEN U16(buffer, base) - 65536
                    ELSE U16(buffer, base)
      [] c = "I" -> U32(buffer, base)
      [] c \in {"f", "d"} -> Float(SubSeq(buffer, base + 1, base + CodeSize(c)))

RECURSIVE UnpackValues(_, _, _)
UnpackValues(fmt, buffer, base) ==
    IF fmt = << >> THEN << >>
    ELSE << CodeValue(Head(fmt), buffer, base) >>
             \o UnpackValues(Tail(fmt), buffer, base + CodeSize(Head(fmt)))

\* struct.unpack_from(fmt, buffer, base): the buffer must hold the format from base on
struct_unpack_from(fmt, buffer, base) ==
    IF Len(buffer) - base < calcsize(fmt)
    THEN [exc |-> "struct.error", v |-> << >>]
    ELSE [exc |-> "none", v |-> UnpackValues(fmt, buffer, base)]

\* struct.unpack(fmt, buffer): the buffer must have exactly the size of the format
struct_unpack(fmt, buffer) ==
    IF Len(buffer) # calcsize(fmt)
    THEN [exc |-> "struct.error", v |-> << >>]
    ELSE [exc |-> "none", v |-> UnpackValues(fmt, buffer, 0)]

\* struct.unpack_from(f'<{n}s', buffer, base)
unpack_string_from(n, buffer, base) ==
    IF Len(buffer) - base < n
    THEN [exc |-> "struct.error", v |-> << >>]
    ELSE [exc |-> "none", v |-> SubSeq(buffer, base + 1, base + n)]

\* A text is the sequence of its code points.  bytes.decode('utf-8'): [ok, v]; code
\* points of one and two bytes are decoded, longer sequences are not drawn
RECURSIVE utf8_decode(_)
utf8_decode(bytes) ==
    LET Then(cp, rest) == [ok |-> rest.ok, v |-> IF rest.ok THEN << cp >> \o rest.v ELSE << >>]
    IN  IF bytes = << >> THEN [ok |-> TRUE, v |-> << >>]
        ELSE IF bytes[1] < 128 THEN Then(bytes[1], utf8_decode(Tail(bytes)))
        ELSE IF bytes[1] \in 194..223 /\ Len(bytes) >= 2 /\ bytes[2] \in 128..191
        THEN Then((bytes[1] - 192) * 64 + (bytes[2] - 128), utf8_decode(Tail(Tail(bytes))))
        ELSE [ok |-> FALSE, v |-> << >>]

\* str.encode('UTF-8') of code points below 2048
RECURSIVE utf8_encode(_)
utf8_encode(text) ==
    IF text = << >> THEN << >>
    ELSE (IF Head(text) < 128 THEN << Head(text) >>
          ELSE << 192 + (Head(text) \div 64), 128 + (Head(text) % 64) >>)
         \o utf8_encode(Tail(text))

\* bytes.decode('utf-8') succeeds
IsUTF8(bytes) == utf8_decode(bytes).ok

\* The JSON documents drawn: the empty object, and a logger setup as json.dumps
\* writes it and as written without spaces
EmptyObjectText == << 123, 125 >>

SetupText ==
    << 123, 34, 118, 101, 114, 115, 105, 111, 110, 34, 58, 32, 123, 34, 99, 111, 109,
       109, 97, 110, 100, 112, 114, 111, 99, 34, 58, 32, 34, 49, 34, 125, 125 >>

SetupTextCompact ==
    << 123, 34, 118, 101, 114, 115, 105, 111, 110, 34, 58, 123, 34, 99, 111, 109, 109,
       97, 110, 100, 112, 114, 111, 99, 34, 58, 34, 49, 34, 125, 125 >>

\* The dictionaries these documents stand for
EmptyObject == [keys |-> {}]

SetupObject ==
    [keys |-> {"version"}, version |-> [keys |-> {"commandproc"}, commandproc |-> "1"]]

\* json.loads succeeds; of the texts drawn the three documents parse, "{" and ""
\* do not
IsJSON(bytes) == bytes \in {EmptyObjectText, SetupText, SetupTextCompact}

\* The value json.loads gives for a document that parses
json_value(bytes) == IF bytes = EmptyObjectText THEN EmptyObject ELSE SetupObject

\* json.dumps(...).encode('UTF-8')
json_dumps(value) == IF value = EmptyObject THEN EmptyObjectText ELSE SetupText

(***************************************************************************)
(* adaptors/logger_file.py: the packet classes' buffer constructors.  Each *)
(* gives [exc, pkt]: exc is "none" and pkt the packet built, or exc names  *)
(* the exception the constructor lets escape.                              *)
(***************************************************************************)

None == [name |-> "None"]

Ok(pkt)  == [exc |-> "none", pkt |-> pkt]
Raise(e) == [exc |-> e, pkt |-> None]

wibl_file_version_major == 1
wibl_file_version_minor == 3

\* The versions compared by their major number only
numeric_file_version_major_only(major, minor) == major * 1000

numeric_file_version(major, minor) == major * 1000 + minor

\* DataPacket.__init__: the attributes every packet has, with the name() of its class
DataPacket(name, date, timestamp, elapsed) ==
    [name |-> name, date |-> date, timestamp |-> timestamp, elapsed |-> elapsed]

\* The classes laid out as '<HdI' and further fields: struct.unpack of the whole
\* buffer; fields holds the attributes after date, timestamp and elapsed, in order
TimedPacket(name, fmt, buffer) ==
    LET Built(u) ==
            IF u.exc # "none" THEN Raise(u.exc)
            ELSE Ok(DataPacket(name, u.v[1], u.v[2], u.v[3])
                      @@ [fields |-> SubSeq(u.v, 4, Len(u.v))])
    IN  Built(struct_unpack(<< "H", "d", "I" >> \o fmt, buffer))

SystemTime(buffer)  == TimedPacket("SystemTime", << "B" >>, buffer)
Attitude(buffer)    == TimedPacket("Attitude", << "d", "d", "d" >>, buffer)
Depth(buffer)       == TimedPacket("Depth", << "d", "d", "d" >>, buffer)
COG(buffer)         == TimedPacket("Course Over Ground", << "d", "d" >>, buffer)
Environment(buffer) == TimedPacket("Environment", << "B", "d", "B", "d", "d" >>, buffer)
Temperature(buffer) == TimedPacket("Temperature", << "B", "d" >>, buffer)
Humidity(buffer)    == TimedPacket("Humidity", << "B", "d" >>, buffer)
Pressure(buffer)    == TimedPacket("Pressure", << "B", "d" >>, buffer)

\* The first three fields are the reception triple, the next two the message's own time
GNSS(buffer) ==
    LET Built(r) ==
            IF r.exc # "none" THEN r
            ELSE Ok(r.pkt @@ [msg_date |-> r.pkt.fields[1],
                              msg_timestamp |-> r.pkt.fields[2]])
    IN  Built(TimedPacket("GNSS", << "H", "d", "d", "d", "d", "B", "B", "B", "d", "d", "d",
                                   "B", "B", "H", "d" >>, buffer))

\* string_length = len(buffer) - 4; a negative length makes the format itself invalid
SerialString(buffer) ==
    LET Built(u) ==
            Ok(DataPacket("SerialString", 0, 0, u.v[1])
                 @@ [data |-> SubSeq(buffer, 5, Len(buffer))])
    IN  IF Len(buffer) - 4 < 0 THEN Raise("struct.error")
        ELSE Built(struct_unpack(<< "I" >>, SubSeq(buffer, 1, 4)))

SerialiserVersion(buffer) ==
    LET Built(major, minor, old, rest) ==
            IF rest.exc # "none" THEN Raise(rest.exc)
            ELSE Ok(DataPacket("SerialiserVersion", 0, 0, 0)
                      @@ [major |-> major, minor |-> minor,
                          nmea2000 |-> SubSeq(rest.v, 1, 3),
                          nmea0183 |-> SubSeq(rest.v, 4, 6),
                          imu |-> IF old THEN << 0, 0, 0 >> ELSE SubSeq(rest.v, 7, 9)])
        Versions(major, minor, old) ==
            Built(major, minor, old,
                  IF old
                  THEN struct_unpack_from(<< "H", "H", "H", "H", "H", "H" >>, buffer, 4)
                  ELSE struct_unpack_from(<< "H", "H", "H", "H", "H", "H", "H", "H", "H" >>,
                                          buffer, 4))
        Branch(head) ==
            IF head.exc # "none" THEN Raise(head.exc)
            ELSE Versions(head.v[1], head.v[2],
                          numeric_file_version(head.v[1], head.v[2])
                            < numeric_file_version(wibl_file_version_major,
                                                   wibl_file_version_minor))
    IN  Branch(struct_unpack_from(<< "H", "H" >>, buffer, 0))

Motion(buffer) ==
    LET Built(u) ==
            IF u.exc # "none" THEN Raise(u.exc)
            ELSE Ok(DataPacket("Motion", 0, 0, u.v[1])
                      @@ [accel |-> SubSeq(u.v, 2, 4), gyro |-> SubSeq(u.v, 5, 7),
                          temp |-> u.v[8]])
    IN  Built(struct_unpack(<< "I", "f", "f", "f", "f", "f", "f", "f" >>, buffer))

RawIMU(buffer) ==
    LET Built(u) ==
            IF u.exc # "none" THEN Raise(u.exc)
            ELSE Ok(DataPacket("RawIMU", 0, 0, u.v[1])
                      @@ [accel |-> SubSeq(u.v, 6, 8), gyro |-> SubSeq(u.v, 3, 5),
                          temp |-> u.v[2]])
    IN  Built(struct_unpack(<< "I", "h", "h", "h", "h", "h", "h", "h" >>, buffer))

\* A u32 count and that many bytes, both by unpack_from at base; next is the base
\* after the field
PrefixedString(buffer, base) ==
    LET Field(count, s) ==
            IF s.exc # "none" THEN [exc |-> s.exc, v |-> << >>, next |-> base]
            ELSE [exc |-> "none", v |-> s.v, next |-> base + 4 + count]
        Counted(n) ==
            IF n.exc # "none" THEN [exc |-> n.exc, v |-> << >>, next |-> base]
            ELSE Field(n.v[1], unpack_string_from(n.v[1], buffer, base + 4))
    IN  Counted(struct_unpack_from(<< "I" >>, buffer, base))

\* The classes made of two length-prefixed strings
TwoStrings(buffer) ==
    LET Both(a, b) == [exc |-> b.exc, a |-> a.v, b |-> b.v]
        Second(a) ==
            IF a.exc # "none" THEN [exc |-> a.exc, a |-> << >>, b |-> << >>]
            ELSE Both(a, PrefixedString(buffer, a.next))
    IN  Second(PrefixedString(buffer, 0))

Metadata(buffer) ==
    LET Built(s) ==
            IF s.exc # "none" THEN Raise(s.exc)
            ELSE IF ~IsUTF8(s.a) \/ ~IsUTF8(s.b) THEN Raise("UnicodeDecodeError")
            ELSE Ok(DataPacket("Metadata", 0, 0, 0)
                      @@ [logger_name |-> utf8_decode(s.a).v,
                          ship_name |-> utf8_decode(s.b).v])
    IN  Built(TwoStrings(buffer))

AlgorithmRequest(buffer) ==
    LET Built(s) ==
            IF s.exc # "none" THEN Raise(s.exc)
            ELSE Ok(DataPacket("AlgorithmRequest", 0, 0, 0)
                      @@ [algorithm |-> s.a, parameters |-> s.b])
    IN  Built(TwoStrings(buffer))

JSONMetadata(buffer) ==
    LET Built(s) ==
            IF s.exc # "none" THEN Raise(s.exc)
            ELSE Ok(DataPacket("JSONMetadata", 0, 0, 0) @@ [metadata_element |-> s.v])
    IN  Built(PrefixedString(buffer, 0))

NMEA0183Filter(buffer) ==
    LET Built(s) ==
            IF s.exc # "none" THEN Raise(s.exc)
            ELSE Ok(DataPacket("NMEA0183Filter", 0, 0, 0) @@ [recog_string |-> s.v])
    IN  Built(PrefixedString(buffer, 0))

\* json.loads of a bytes object: it is decoded, then parsed
json_loads(bytes) ==
    IF ~IsUTF8(bytes) THEN "UnicodeDecodeError"
    ELSE IF ~IsJSON(bytes) THEN "JSONDecodeError"
    ELSE "none"

SensorScales(buffer) ==
    LET Loaded(s, err) ==
            IF err # "none" THEN Raise(err)
            ELSE Ok(DataPacket("SensorScales", 0, 0, 0) @@ [config |-> json_value(s.v)])
        Built(s) == IF s.exc # "none" THEN Raise(s.exc) ELSE Loaded(s, json_loads(s.v))
    IN  Built(PrefixedString(buffer, 0))

Setup(buffer) ==
    LET Loaded(s, err) ==
            IF err # "none" THEN Raise(err)
            ELSE Ok(DataPacket("Setup", 0, 0, 0) @@ [setup |-> json_value(s.v)])
        Built(s) == IF s.exc # "none" THEN Raise(s.exc) ELSE Loaded(s, json_loads(s.v))
    IN  Built(PrefixedString(buffer, 0))

(***************************************************************************)
(* adaptors/logger_file.py: payload and serialise.  A packet is the record *)
(* of its attributes, as the buffer constructors above build it.           *)
(***************************************************************************)

\* struct.pack of one float or double; the values drawn are 0.0, 1.0 and 2.0
PackFloat(c, x) ==
    IF c = "d"
    THEN CASE x = 0 -> Zeros(8)
           [] x = 1 -> << 0, 0, 0, 0, 0, 0, 240, 63 >>
           [] x = 2 -> << 0, 0, 0, 0, 0, 0, 0, 64 >>
    ELSE CASE x = 0 -> Zeros(4)
           [] x = 1 -> << 0, 0, 128, 63 >>
           [] x = 2 -> << 0, 0, 0, 64 >>

\* The values a format code accepts
CodeAccepts(c, x) ==
    CASE c = "B" -> x \in 0..255
      [] c = "H" -> x \in 0..65535
      [] c = "h" -> x \in -32768..32767
      [] c = "I" -> x >= 0
      [] c \in {"f", "d"} -> TRUE

PackCode(c, x) ==
    CASE c = "B" -> << x >>
      [] c = "H" -> LE16(x)
      [] c = "h" -> LE16(x % 65536)
      [] c = "I" -> LE32(x)
      [] c \in {"f", "d"} -> PackFloat(c, x)

RECURSIVE PackValues(_, _, _)
PackValues(fmt, values, k) ==
    IF k > Len(fmt) THEN << >>
    ELSE PackCode(fmt[k], values[k]) \o PackValues(fmt, values, k + 1)

\* struct.pack(fmt, *values): one value for each code, each in the range of its code
struct_pack(fmt, values) ==
    IF Len(values) # Len(fmt) \/ \E k \in 1..Len(fmt) : ~CodeAccepts(fmt[k], values[k])
    THEN [exc |-> "struct.error", v |-> << >>]
    ELSE [exc |-> "none", v |-> PackValues(fmt, values, 1)]

\* The 'ns' code: the first n bytes, padded with zero bytes
pack_string(n, bytes) == [i \in 1..n |-> IF i <= Len(bytes) THEN bytes[i] ELSE 0]

\* A u32 count and the string packed to that count
PrefixedBytes(n, bytes) == LE32(n) \o pack_string(n, bytes)

\* payload of the classes laid out as '<HdI' and further fields
TimedPayloadOf(p, fmt, rest) ==
    struct_pack(<< "H", "d", "I" >> \o fmt, << p.date, p.timestamp, p.elapsed >> \o rest)

\* Temperature.payload packs tempSource in the place of the temperature as well
Temperature_payload(p) == TimedPayloadOf(p, << "B", "d" >>, << p.fields[1], p.fields[1] >>)

GNSS_payload(p) ==
    TimedPayloadOf(p, << "H", "d", "d", "d", "d", "B", "B", "B", "d", "d", "d", "B", "B",
                         "H", "d" >>,
                   << p.msg_date, p.msg_timestamp >> \o SubSeq(p.fields, 3, Len(p.fields)))

SerialString_payload(p) ==
    [exc |-> "none", v |-> LE32(p.elapsed) \o pack_string(Len(p.data), p.data)]

SerialiserVersion_payload(p) ==
    struct_pack(<< "H", "H", "H", "H", "H", "H", "H", "H", "H", "H", "H" >>,
                << p.major, p.minor >> \o p.nmea2000 \o p.nmea0183 \o p.imu)

Motion_payload(p) ==
    struct_pack(<< "I", "f", "f", "f", "f", "f", "f", "f" >>,
                << p.elapsed >> \o p.accel \o p.gyro \o << p.temp >>)

\* The lengths are those of the texts, the strings packed are their encodings
Metadata_payload(p) ==
    [exc |-> "none",
     v |-> PrefixedBytes(Len(p.logger_name), utf8_encode(p.logger_name))
             \o PrefixedBytes(Len(p.ship_name), utf8_encode(p.ship_name))]

AlgorithmRequest_payload(p) ==
    [exc |-> "none",
     v |-> PrefixedBytes(Len(p.algorithm), p.algorithm)
             \o PrefixedBytes(Len(p.parameters), p.parameters)]

\* SensorScales.payload hands the dictionary to the 's' code, which takes bytes only
SensorScales_payload(p) == [exc |-> "struct.error", v |-> << >>]

\* RawIMU.payload reads self.gyrpo, an attribute no RawIMU has
RawIMU_payload(p) == [exc |-> "AttributeError", v |-> << >>]

Setup_payload(p) ==
    [exc |-> "none", v |-> PrefixedBytes(Len(json_dumps(p.setup)), json_dumps(p.setup))]

\* payload() of the class of p
DataPacket_payload(p) ==
    CASE p.name = "SystemTime" -> TimedPayloadOf(p, << "B" >>, p.fields)
      [] p.name \in {"Attitude", "Depth"} -> TimedPayloadOf(p, << "d", "d", "d" >>, p.fields)
      [] p.name = "Course Over Ground" -> TimedPayloadOf(p, << "d", "d" >>, p.fields)
      [] p.name = "GNSS" -> GNSS_payload(p)
      [] p.name = "Environment" ->
            TimedPayloadOf(p, << "B", "d", "B", "d", "d" >>, p.fields)
      [] p.name = "Temperature" -> Temperature_payload(p)
      [] p.name \in {"Humidity", "Pressure"} -> TimedPayloadOf(p, << "B", "d" >>, p.fields)
      [] p.name = "SerialString" -> SerialString_payload(p)
      [] p.name = "SerialiserVersion" -> SerialiserVersion_payload(p)
      [] p.name = "Motion" -> Motion_payload(p)
      [] p.name = "Metadata" -> Metadata_payload(p)
      [] p.name = "AlgorithmRequest" -> AlgorithmRequest_payload(p)
      [] p.name = "JSONMetadata" ->
            [exc |-> "none", v |-> PrefixedBytes(Len(p.metadata_element), p.metadata_element)]
      [] p.name = "NMEA0183Filter" ->
            [exc |-> "none", v |-> PrefixedBytes(Len(p.recog_string), p.recog_string)]
      [] p.name = "SensorScales" -> SensorScales_payload(p)
      [] p.name = "RawIMU" -> RawIMU_payload(p)
      [] p.name = "Setup" -> Setup_payload(p)

\* id() of the class of p
PacketId(p) ==
    CASE p.name = "SerialiserVersion" -> 0
      [] p.name = "SystemTime" -> 1
      [] p.name = "Attitude" -> 2
      [] p.name = "Depth" -> 3
      [] p.name = "Course Over Ground" -> 4
      [] p.name = "GNSS" -> 5
      [] p.name = "Environment" -> 6
      [] p.name = "Temperature" -> 7
      [] p.name = "Humidity" -> 8
      [] p.name = "Pressure" -> 9
      [] p.name = "SerialString" -> 10
      [] p.name = "Motion" -> 11
      [] p.name = "Metadata" -> 12
      [] p.name = "AlgorithmRequest" -> 13
      [] p.name = "JSONMetadata" -> 14
      [] p.name = "NMEA0183Filter" -> 15
      [] p.name = "SensorScales" -> 16
      [] p.name = "RawIMU" -> 17
      [] p.name = "Setup" -> 18

\* DataPacket.serialise: the payload is built first, then the id, the length
\* and the payload are written
serialise(p) ==
    LET Written(buffer) ==
            IF buffer.exc # "none" THEN buffer
            ELSE [exc |-> "none", v |-> LE32(PacketId(p)) \o LE32(Len(buffer.v)) \o buffer.v]
    IN  Written(DataPacket_payload(p))

(***************************************************************************)
(* adaptors/logger_file.py: PacketFactory.  The file object is the stream  *)
(* file with the read position pos; read(n) gives the up to n bytes left   *)
(* at pos and advances by what it gave.                                    *)
(***************************************************************************)

HeaderSize == 8

PacketTypes == 0..18

Read(f, p, n) == SubSeq(f, p + 1, p + Min(n, Len(f) - p))

\* PacketFactory.has_more
has_more(eof) == ~eof

\* The early return of next_packet left out
AtEnd_never(eof) == FALSE

\* The test on entry of next_packet
AtEnd(eof) == eof

\* Only an empty read taken as the end of the stream
IsShortHeader_empty(buffer) == Len(buffer) < 1

\* No header read taken as the end of the stream
IsShortHeader_never(buffer) == FALSE

\* The test of the header read that ends the stream
IsShortHeader(buffer) == Len(buffer) < HeaderSize

\* An unknown type treated as a transcription failure
UnknownPacket_raises(pkt_id) == Raise("struct.error")

\* The else branch of the dispatch: the type is reported and None is the result
UnknownPacket(pkt_id) == Ok(None)

\* The dispatch on pkt_id inside the try block
Dispatch(pkt_id, buffer) ==
    CASE pkt_id = 0  -> SerialiserVersion(buffer)
      [] pkt_id = 1  -> SystemTime(buffer)
      [] pkt_id = 2  -> Attitude(buffer)
      [] pkt_id = 3  -> Depth(buffer)
      [] pkt_id = 4  -> COG(buffer)
      [] pkt_id = 5  -> GNSS(buffer)
      [] pkt_id = 6  -> Environment(buffer)
      [] pkt_id = 7  -> Temperature(buffer)
      [] pkt_id = 8  -> Humidity(buffer)
      [] pkt_id = 9  -> Pressure(buffer)
      [] pkt_id = 10 -> SerialString(buffer)
      [] pkt_id = 11 -> Motion(buffer)
      [] pkt_id = 12 -> Metadata(buffer)
      [] pkt_id = 13 -> AlgorithmRequest(buffer)
      [] pkt_id = 14 -> JSONMetadata(buffer)
      [] pkt_id = 15 -> NMEA0183Filter(buffer)
      [] pkt_id = 16 -> SensorScales(buffer)
      [] pkt_id = 17 -> RawIMU(buffer)
      [] pkt_id = 18 -> Setup(buffer)
      [] OTHER -> UnknownPacket(pkt_id)

\* What one call leaves behind: the value returned or the exception raised, the
\* position and flag after it, the number of file.read calls it made, and the header
\* and the payload length it saw (-1 and 0 when it did not get that far)
CallResult(rtn, exc, p, eof, reads, pkt_id, pkt_len, got) ==
    [rtn |-> rtn, exc |-> exc, pos |-> p, end_of_file |-> eof, reads |-> reads,
     pkt_id |-> pkt_id, pkt_len |-> pkt_len, got |-> got]

\* PacketFactory.next_packet on the stream f at position p with the flag eof.  The
\* header is unpacked outside the try block; inside it struct.error becomes
\* PacketTranscriptionError and any other exception propagates as it is.
next_packet(f, p, eof) ==
    LET Decoded(pkt_id, pkt_len, buffer, p1, d) ==
            CallResult(d.pkt,
                       IF d.exc = "struct.error" THEN "PacketTranscriptionError" ELSE d.exc,
                       p1 + Len(buffer), eof, 2, pkt_id, pkt_len, Len(buffer))
        Payload(pkt_id, pkt_len, buffer, p1) ==
            Decoded(pkt_id, pkt_len, buffer, p1, Dispatch(pkt_id, buffer))
        Unpacked(h, p1) ==
            IF h.exc # "none" THEN CallResult(None, h.exc, p1, eof, 1, -1, -1, 0)
            ELSE Payload(h.v[1], h.v[2], Read(f, p1, h.v[2]), p1)
        Header(header) ==
            IF IsShortHeader(header)
            THEN CallResult(None, "none", p + Len(header), TRUE, 1, -1, -1, 0)
            ELSE Unpacked(struct_unpack(<< "I", "I" >>, header), p + Len(header))
    IN  IF AtEnd(eof) THEN CallResult(None, "none", p, eof, 0, -1, -1, 0)
        ELSE Header(Read(f, p, HeaderSize))

(***************************************************************************)
(* adaptors/wibl.py: what WIBLLoader.load does with a packet               *)
(***************************************************************************)

Whitespace == {9, 10, 11, 12, 13, 32}

\* str.strip()
RECURSIVE Strip(_)
Strip(text) ==
    IF text = << >> THEN text
    ELSE IF Head(text) \in Whitespace THEN Strip(Tail(text))
    ELSE IF text[Len(text)] \in Whitespace THEN Strip(SubSeq(text, 1, Len(text) - 1))
    ELSE text

\* NMEA0183Parser.unpack over the texts drawn: "Z", "R" and "D" stand for well-formed
\* ZDA, RMC and DPT sentences, "!" for a sentence with a bad checksum; nothing else
\* parses
NMEA0183Unpack(text) ==
    CASE text = << 90 >> -> [unpack |-> "ok", Formatter |-> "ZDA", Fields |-> [day |-> 1, timestamp |-> 30]]
      [] text = << 82 >> -> [unpack |-> "ok", Formatter |-> "RMC", Fields |-> [day |-> 1, timestamp |-> 30]]
      [] text = << 68 >> -> [unpack |-> "ok", Formatter |-> "DPT", Fields |-> EmptyDict]
      [] text = << 33 >> -> [unpack |-> "ChecksumError", Formatter |-> "none", Fields |-> EmptyDict]
      [] OTHER -> [unpack |-> "ParseError", Formatter |-> "none", Fields |-> EmptyDict]

\* The body of the loader's loop after a packet was returned: [exc, packet], where
\* packet is the observation to keep or None
LoaderPacket(pkt) ==
    LET Parsed(obs) ==
            IF obs = BadData THEN [exc |-> "BadData", packet |-> None]
            ELSE [exc |-> "none", packet |-> obs]
    IN  IF pkt.name = "JSONMetadata"
        THEN [exc |-> json_loads(pkt.metadata_element), packet |-> None]
        ELSE IF pkt.name = "SerialString"
        THEN IF ~IsUTF8(pkt.data) THEN [exc |-> "UnicodeDecodeError", packet |-> None]
             ELSE Parsed(RawN0183Obs(pkt.elapsed, NMEA0183Unpack(Strip(pkt.data))))
        ELSE IF pkt.name \in {"Depth", "GNSS", "SystemTime"}
        THEN [exc |-> "none", packet |-> ParsedN2000(pkt.elapsed, pkt)]
        ELSE [exc |-> "none", packet |-> None]

(***************************************************************************)
(* adaptors/ydvr.py: TranslateCANId, IsMultiPacket and next_packet.  A     *)
(* 32-bit identifier is the record of its two 16-bit halves, so that all   *)
(* 2^32 values are written; the PGN of the sentinel 0xFFFFFFFF, which is   *)
(* the identifier itself, is written SentinelPGN.                          *)
(***************************************************************************)

SentinelId == [hi |-> 65535, lo |-> 65535]

SentinelPGN == -1

RECURSIVE Pow2(_)
Pow2(n) == IF n = 0 THEN 1 ELSE 2 * Pow2(n - 1)

\* (id >> shift) & mask, for a field that lies within one half of the identifier
Bits(id, shift, mask) ==
    IF shift >= 16 THEN (id.hi \div Pow2(shift - 16)) % (mask + 1)
    ELSE (id.lo \div Pow2(shift)) % (mask + 1)

\* Every identifier decoded in the PDU1 format
TranslateCANId_pdu1(id) ==
    [priority |-> Bits(id, 26, 7), pgn |-> Bits(id, 24, 1) * 65536 + Bits(id, 16, 255) * 256,
     source |-> Bits(id, 0, 255), destination |-> Bits(id, 8, 255)]

TranslateCANId(id) ==
    LET Fields(pf, ps, dp, source, priority) ==
            IF pf < 240
            THEN [priority |-> priority, pgn |-> dp * 65536 + pf * 256,
                  source |-> source, destination |-> ps]
            ELSE [priority |-> priority, pgn |-> dp * 65536 + pf * 256 + ps,
                  source |-> source, destination |-> 255]
    IN  Fields(Bits(id, 16, 255), Bits(id, 8, 255), Bits(id, 24, 1), Bits(id, 0, 255),
               Bits(id, 26, 7))

multipackets ==
    { 65240, 126208, 126464, 126720, 126983, 126984, 126985, 126986, 126987, 126988, 126996,
      126998, 127233, 127237, 127489, 127496, 127497, 127498, 127503, 127504, 127506, 127507,
      127509, 127510, 127511, 127512, 127513, 127514, 128275, 128520, 129029, 129038, 129039,
      129040, 129041, 129044, 129045, 129284, 129285, 129301, 129302, 129538, 129540, 129541,
      129542, 129545, 129547, 129549, 129551, 129556, 129792, 129793, 129794, 129795, 129796,
      129797, 129798, 129799, 129800, 129801, 129802, 129803, 129804, 129805, 129806, 129807,
      129808, 129809, 129810, 130052, 130053, 130054, 130060, 130061, 130064, 130065, 130066,
      130067, 130068, 130069, 130070, 130071, 130072, 130073, 130074, 130320, 130321, 130322,
      130323, 130324, 130567, 130577, 130578, 130816 }

\* No PGN taken as a multi-packet one
IsMultiPacket_never(pgn) == FALSE

IsMultiPacket(pgn) == pgn \in multipackets

\* What a call of next_packet comes to: the tuple returned or the exception raised,
\* the identifier read, the sizes asked of f.read in order, and the position after
YdvrResult(elapsed, pgn, packet, exc, msgid, reads, p) ==
    [elapsed |-> elapsed, pgn |-> pgn, packet |-> packet, exc |-> exc, msgid |-> msgid,
     reads |-> reads, pos |-> p]

\* next_packet(f) of the YDVR adaptor.  struct.unpack of a short read raises
\* struct.error; a short payload is returned as it is.
ydvr_next_packet(f, p) ==
    LET Packet(elapsed, msgid, pgn, reads, datalen, p3) ==
            YdvrResult(elapsed, pgn, Read(f, p3, datalen), "none", msgid,
                       reads \o << datalen >>, p3 + Len(Read(f, p3, datalen)))
        Multi(elapsed, msgid, pgn, multi_buffer, p2) ==
            IF Len(multi_buffer) # 2
            THEN YdvrResult(elapsed, pgn, << >>, "struct.error", msgid, << 2, 4, 2 >>,
                            p2 + Len(multi_buffer))
            ELSE Packet(elapsed, msgid, pgn, << 2, 4, 2 >>, multi_buffer[2], p2 + 2)
        Length(elapsed, msgid, pgn, p2) ==
            IF pgn = 59904 THEN Packet(elapsed, msgid, pgn, << 2, 4 >>, 3, p2)
            ELSE IF pgn = SentinelPGN THEN Packet(elapsed, msgid, pgn, << 2, 4 >>, 8, p2)
            ELSE IF IsMultiPacket(pgn) THEN Multi(elapsed, msgid, pgn, Read(f, p2, 2), p2)
            ELSE Packet(elapsed, msgid, pgn, << 2, 4 >>, 8, p2)
        Identified(elapsed, msgid, p2) ==
            Length(elapsed, msgid,
                   IF msgid = SentinelId THEN SentinelPGN ELSE TranslateCANId(msgid).pgn, p2)
        Id(elapsed, id_buffer, p1) ==
            IF Len(id_buffer) # 4
            THEN YdvrResult(elapsed, 0, << >>, "struct.error", SentinelId, << 2, 4 >>,
                            p1 + Len(id_buffer))
            ELSE Identified(elapsed, [lo |-> U16(id_buffer, 0), hi |-> U16(id_buffer, 2)],
                            p1 + 4)
        Elapsed16(t_buffer) ==
            IF Len(t_buffer) = 0
            THEN YdvrResult(-1, -1, << >>, "none", SentinelId, << 2 >>, p)
            ELSE IF Len(t_buffer) # 2
            THEN YdvrResult(0, 0, << >>, "struct.error", SentinelId, << 2 >>,
                            p + Len(t_buffer))
            ELSE Id(U16(t_buffer, 0), Read(f, p + 2, 4), p + 2)
    IN  Elapsed16(Read(f, p, 2))

(***************************************************************************)
(* Idle values of the variables a specification does not exercise          *)
(***************************************************************************)

DataIdle   == stats = EmptyDict /\ packets = << >> /\ timesrc = "unset" /\ timebase = EmptyDict
YdvrIdle   == elapsed_offset = 0 /\ last_elapsed_mark = 0 /\ frames = << >>
CacheIdle  ==
    /\ listing = << >> /\ page = 0 /\ total_pages = 0 /\ requested = << >> /\ next_item = 0
    /\ tasks = << >> /\ cache_dir = EmptyDict
InterpIdle == table = EmptyDict /\ table_op = "none"
PfIdle     ==
    file = << >> /\ pos = 0 /\ end_of_file = FALSE /\ log = << >> /\ written = None

(***************************************************************************)
(* SpecStats: a PktStats object under Observed and Fault calls, and        *)
(* determine_time_source applied to it.                                    *)
(***************************************************************************)

\* The number of Observed and Fault calls made so far
StatOps == TotalCount(stats) + TotalFaults(stats)

InitStats == pc = "stats" /\ DataIdle /\ YdvrIdle /\ CacheIdle /\ InterpIdle /\ PfIdle

Observed(name) ==
    /\ pc = "stats"
    /\ StatOps < MaxStatOps
    /\ stats' = StatsObserved(stats, name)
    /\ UNCHANGED << cacheVars, pc, packets, timesrc, timebase, ydvrVars, interpVars, pfVars >>

Fault(name, fault) ==
    /\ pc = "stats"
    /\ StatOps < MaxStatOps
    /\ stats' = StatsFault(stats, name, fault)
    /\ UNCHANGED << cacheVars, pc, packets, timesrc, timebase, ydvrVars, interpVars, pfVars >>

DetermineTimeSource ==
    /\ pc = "stats"
    /\ timesrc' = determine_time_source(stats)
    /\ pc' = "selected"
    /\ UNCHANGED << cacheVars, stats, packets, timebase, ydvrVars, interpVars, pfVars >>

NextStats ==
    \/ \E name \in StatNames : Observed(name)
    \/ \E name \in StatNames, fault \in PktFaults : Fault(name, fault)
    \/ DetermineTimeSource

SpecStats == InitStats /\ [][NextStats]_vars

(***************************************************************************)
(* SpecStatsCalls: every method of a PktStats called in any order, the     *)
(* outcome of the last call kept in log.                                   *)
(***************************************************************************)

MaxStatCalls == 3

\* The names the methods are called with
CallNames == {"GNSS", "Depth"}

InitStatsCalls == pc = "stats" /\ DataIdle /\ YdvrIdle /\ CacheIdle /\ InterpIdle /\ PfIdle

\* What is kept of a call
StatsCall(call, name, raised, rtn) ==
    << [call |-> call, name |-> name, raised |-> raised, rtn |-> rtn] >>

ObservedCall(name) ==
    /\ pc = "stats"
    /\ StatOps < MaxStatCalls
    /\ stats' = StatsObserved(stats, name)
    /\ log' = StatsCall("Observed", name, "none", 0)
    /\ UNCHANGED << cacheVars, pc, packets, timesrc, timebase, ydvrVars, interpVars, file, pos,
                    end_of_file, written >>

FaultCall(name, fault) ==
    /\ pc = "stats"
    /\ StatOps < MaxStatCalls
    /\ stats' = StatsFault(stats, name, fault)
    /\ log' = StatsCall("Fault", name, "none", 0)
    /\ UNCHANGED << cacheVars, pc, packets, timesrc, timebase, ydvrVars, interpVars, file, pos,
                    end_of_file, written >>

SeenCall(name) ==
    /\ pc = "stats"
    /\ log' = StatsCall("Seen", name, "none", IF Seen(stats, name) THEN 1 ELSE 0)
    /\ UNCHANGED << cacheVars, pc, dataVars, ydvrVars, interpVars, file, pos, end_of_file, written >>

TotalCountCall ==
    /\ pc = "stats"
    /\ log' = StatsCall("TotalCount", "", "none", TotalCount(stats))
    /\ UNCHANGED << cacheVars, pc, dataVars, ydvrVars, interpVars, file, pos, end_of_file, written >>

FaultCountCall(name) ==
    /\ pc = "stats"
    /\ LET Called(r) == log' = StatsCall("FaultCount", name, r.raised, r.rtn)
       IN  Called(PktStats_FaultCount(stats, name))
    /\ UNCHANGED << cacheVars, pc, dataVars, ydvrVars, interpVars, file, pos, end_of_file, written >>

NextStatsCalls ==
    \/ \E name \in CallNames : ObservedCall(name)
    \/ \E name \in CallNames, fault \in PktFaults : FaultCall(name, fault)
    \/ \E name \in CallNames : SeenCall(name)
    \/ TotalCountCall
    \/ \E name \in CallNames : FaultCountCall(name)

SpecStatsCalls == InitStatsCalls /\ [][NextStatsCalls]_vars

(***************************************************************************)
(* SpecTimebase: observations are constructed from decoded records, then   *)
(* generate_timebase is applied to them with any source.                   *)
(***************************************************************************)

\* Number of messages given to generate_timebase
MaxMessages == 3

ElapsedSamples == {1, 2}

\* What marulc's NMEA0183 parser makes of the sentences drawn
N0183Messages ==
    { [unpack |-> "ok", Formatter |-> f, Fields |-> [day |-> 1, timestamp |-> 30]] :
        f \in {"ZDA", "RMC", "DPT"} }
    \cup { [unpack |-> "ChecksumError", Formatter |-> "none", Fields |-> EmptyDict] }

\* What marulc's unpack_complete_message makes of the frames drawn
N2000Messages ==
    { [unpack |-> "ok", PGN |-> p,
       Fields |-> [date |-> 2, time |-> 40, msg_date |-> 3, msg_time |-> 50, source |-> 0]] :
        p \in {126992, 128267, 129029} }
    \cup { [unpack |-> "PGNError", PGN |-> 65280, Fields |-> EmptyDict] }

\* Decoded logger packets handed to ParsedN2000
LoggerPackets ==
    { [name |-> n, date |-> 4, timestamp |-> 60, msg_date |-> 5, msg_timestamp |-> 70] :
        n \in {"SystemTime", "GNSS", "Depth"} }

InitTimebase == pc = "build" /\ DataIdle /\ YdvrIdle /\ CacheIdle /\ InterpIdle /\ PfIdle

\* One record is classified; an observation that raises BadData is not kept
Classify(obs) ==
    /\ pc = "build"
    /\ Len(packets) < MaxMessages
    /\ packets' = IF obs = BadData THEN packets ELSE Append(packets, obs)
    /\ UNCHANGED << cacheVars, pc, stats, timesrc, timebase, ydvrVars, interpVars, pfVars >>

NewRawN0183Obs == \E e \in ElapsedSamples, m \in N0183Messages : Classify(RawN0183Obs(e, m))

NewRawN2000Obs == \E e \in ElapsedSamples, m \in N2000Messages : Classify(RawN2000Obs(e, m.PGN, m))

NewParsedN2000 == \E e \in ElapsedSamples, d \in LoggerPackets : Classify(ParsedN2000(e, d))

GenerateTimebase(source) ==
    /\ pc = "build"
    /\ timesrc' = source
    /\ timebase' = generate_timebase(packets, source)
    /\ pc' = "done"
    /\ UNCHANGED << cacheVars, stats, packets, ydvrVars, interpVars, pfVars >>

NextTimebase ==
    \/ NewRawN0183Obs
    \/ NewRawN2000Obs
    \/ NewParsedN2000
    \/ \E source \in TimeSources : GenerateTimebase(source)

SpecTimebase == InitTimebase /\ [][NextTimebase]_vars

(***************************************************************************)
(* SpecYDVR: adaptors/ydvr.py load_data.  One step is one iteration of the *)
(* read loop on the frame next_packet returned; the step at end of file    *)
(* leaves the loop and runs the rest of load_data.                         *)
(***************************************************************************)

\* Number of frames in the file
MaxFrames == 3

\* load_data: maxelapsed
maxelapsed == 65535

\* Values of the 16-bit elapsed field of the frames drawn
RawElapsedSamples == {0, 200, 900, 65000, 65530, 65535}

\* What unpack_complete_message makes of the payloads drawn; RuntimeError and
\* ValueError stand for exceptions RawN2000Obs.__init__ does not catch
YdvrMessages ==
    { [unpack |-> "ok", PGN |-> p,
       Fields |-> [date |-> 2, time |-> 40, msg_date |-> 3, msg_time |-> 50, source |-> 0]] :
        p \in {126992, 129029} }
    \cup { [unpack |-> "PGNError", PGN |-> 65280, Fields |-> EmptyDict],
           [unpack |-> "RuntimeError", PGN |-> 128267, Fields |-> EmptyDict],
           [unpack |-> "ValueError", PGN |-> 128267, Fields |-> EmptyDict] }

\* load_data: pkt_name, from get_description_for_pgn
YdvrPktName(pgn) ==
    IF PGNDescription(pgn) = "ValueError" THEN "Unknown" ELSE PGNDescription(pgn)

\* load_data: the offset after the wrap test on a newly read elapsed
WrapOffset(offset, mark, elapsed) ==
    IF elapsed < mark THEN offset + maxelapsed ELSE offset

InitYDVR == pc = "reading" /\ DataIdle /\ YdvrIdle /\ CacheIdle /\ InterpIdle /\ PfIdle

\* One iteration of the loop: next_packet returned (elapsed, pgn, packet)
YdvrFrame(elapsed, m) ==
    /\ pc = "reading"
    /\ Len(frames) < MaxFrames
    /\ LET pkt_name == YdvrPktName(m.PGN)
           offset   == WrapOffset(elapsed_offset, last_elapsed_mark, elapsed)
           obs      == RawN2000Obs(elapsed + offset, m.PGN, m)
       IN  /\ elapsed_offset' = offset
           /\ last_elapsed_mark' = elapsed
           /\ frames' = Append(frames, [raw |-> elapsed, given |-> elapsed + offset,
                                        kept |-> obs.kind = "RawN2000Obs"])
           /\ IF obs.kind = "RawN2000Obs"
              THEN /\ packets' = Append(packets, obs)
                   /\ stats' = StatsObserved(stats, Name(obs))
                   /\ pc' = pc
              ELSE IF obs = BadData \/ obs.exc = "RuntimeError"
              THEN /\ packets' = packets
                   /\ stats' = StatsFault(StatsObserved(stats, pkt_name), pkt_name, "DecodeFault")
                   /\ pc' = pc
              ELSE IF obs.exc = "ParseError"
              THEN /\ packets' = packets
                   /\ stats' = StatsFault(StatsObserved(stats, pkt_name), pkt_name, "ParseFault")
                   /\ pc' = pc
              ELSE /\ packets' = packets
                   /\ stats' = stats
                   /\ pc' = "raised"
    /\ UNCHANGED << cacheVars, timesrc, timebase, interpVars, pfVars >>

\* next_packet returned (-1, -1, ""): the loop ends, the time source is determined
\* and the timebase generated; NoTimeSource leaves load_data
YdvrEndOfFile ==
    /\ pc = "reading"
    /\ LET src == determine_time_source(stats)
       IN  /\ timesrc' = src
           /\ IF src = "NoTimeSource"
              THEN pc' = "NoTimeSource" /\ timebase' = timebase
              ELSE pc' = "loaded" /\ timebase' = generate_timebase(packets, src)
    /\ UNCHANGED << cacheVars, stats, packets, ydvrVars, interpVars, pfVars >>

NextYDVR ==
    \/ \E elapsed \in RawElapsedSamples, m \in YdvrMessages : YdvrFrame(elapsed, m)
    \/ YdvrEndOfFile

SpecYDVR == InitYDVR /\ [][NextYDVR]_vars

(***************************************************************************)
(* SpecInterp: an InterpTable under add_point and add_points calls.        *)
(***************************************************************************)

\* Number of values of the independent variable a table is filled to
MaxPoints == 2

\* The dependent variables the tables are constructed with: the timebase table, the
\* tables of Dataset.generate_observations
TableVarSets == { {"ref"}, {"z", "waterTemp"}, {"lon", "lat"} }

IndSamples   == {0, 10}
ValueSamples == {10, 20}

\* The variable lists and value lists add_points is called with
NameLists  == { << >>, << "z" >>, << "ref" >>, << "lon", "lat" >>, << "z", "waterTemp" >>,
                << "lon", "nope" >> }
ValueLists == { << >>, << 10 >>, << 10, 20 >> }

InitInterp ==
    /\ pc = "table"
    /\ \E vs \in TableVarSets : table = InterpTable(vs)
    /\ table_op = "none"
    /\ DataIdle /\ YdvrIdle /\ CacheIdle /\ PfIdle

AddPoint(x, name, value) ==
    /\ pc = "table"
    /\ n_points(table) < MaxPoints
    /\ LET r == add_point(table, x, name, value)
       IN  /\ table' = r.vars
           /\ table_op' = r.raised
    /\ UNCHANGED << cacheVars, pc, dataVars, ydvrVars, pfVars >>

AddPoints(x, names, values) ==
    /\ pc = "table"
    /\ n_points(table) < MaxPoints
    /\ LET r == add_points(table, x, names, values)
       IN  /\ table' = r.vars
           /\ table_op' = r.raised
    /\ UNCHANGED << cacheVars, pc, dataVars, ydvrVars, pfVars >>

\* The values interpolate is asked for
QuerySamples == {-5, 5, 10}

\* table.interpolate(yvars, x) for an array x of one value
Interpolate(yvars, x) ==
    /\ pc = "table"
    /\ \E r \in interpolate(table, yvars, x) :
           /\ table' = r.vars
           /\ table_op' = IF r.raised # "none" THEN r.raised ELSE "interpolate"
    /\ UNCHANGED << cacheVars, pc, dataVars, ydvrVars, pfVars >>

\* table.var(name)
Var(name) ==
    /\ pc = "table"
    /\ table_op' = IF name \notin DOMAIN table THEN "NoSuchVariable" ELSE "var"
    /\ UNCHANGED << cacheVars, pc, table, dataVars, ydvrVars, pfVars >>

\* table.ind()
Ind ==
    /\ pc = "table"
    /\ table_op' = "ind"
    /\ UNCHANGED << cacheVars, pc, table, dataVars, ydvrVars, pfVars >>

\* table.n_points()
NPoints ==
    /\ pc = "table"
    /\ table_op' = "n_points"
    /\ UNCHANGED << cacheVars, pc, table, dataVars, ydvrVars, pfVars >>

NextInterp ==
    \/ \E x \in IndSamples, name \in DOMAIN table \cup {"nope"}, value \in ValueSamples :
           AddPoint(x, name, value)
    \/ \E x \in IndSamples, names \in NameLists, values \in ValueLists :
           AddPoints(x, names, values)
    \/ \E yvars \in NameLists, x \in QuerySamples : Interpolate(yvars, x)
    \/ \E name \in DOMAIN table \cup {"nope"} : Var(name)
    \/ Ind
    \/ NPoints

SpecInterp == InitInterp /\ [][NextInterp]_vars

(***************************************************************************)
(* SpecInterpQuery: a table of one dependent variable is filled by         *)
(* add_point and then interpolated at one value.                           *)
(***************************************************************************)

MaxNodes == 3

NodeIndSamples == {0, 10, 20}

NodeValueSamples == {10, 20, 40}

NodeQuerySamples == {-5, 0, 5, 10, 15, 20, 25}

\* The lists of (ind, value) nodes of at most n nodes
RECURSIVE NodeLists(_)
NodeLists(n) ==
    IF n = 0 THEN { << >> }
    ELSE NodeLists(n - 1)
         \cup { Append(l, << x, v >>) :
                  l \in { m \in NodeLists(n - 1) : Len(m) = n - 1 },
                  x \in NodeIndSamples, v \in NodeValueSamples }

\* The table after add_point(ind, "z", value) for each node in turn
RECURSIVE TableOfNodes(_, _)
TableOfNodes(nodes, k) ==
    IF k = 0 THEN InterpTable({"z"})
    ELSE add_point(TableOfNodes(nodes, k - 1), nodes[k][1], "z", nodes[k][2]).vars

InitInterpQuery ==
    /\ pc = "query"
    /\ table \in { TableOfNodes(nodes, Len(nodes)) : nodes \in NodeLists(MaxNodes) }
    /\ table_op = "none"
    /\ DataIdle /\ YdvrIdle /\ CacheIdle /\ PfIdle

\* table.interpolate(["z"], x) for an array x of one value; the list returned is kept
InterpolateZ(x) ==
    /\ pc = "query"
    /\ \E r \in interpolate(table, << "z" >>, x) :
           /\ table' = r.vars
           /\ table_op' = IF r.raised # "none" THEN r.raised ELSE "interpolate"
           /\ log' = << [x |-> x, raised |-> r.raised, rtn |-> r.rtn] >>
    /\ pc' = "queried"
    /\ UNCHANGED << cacheVars, file, pos, end_of_file, written, dataVars, ydvrVars >>

NextInterpQuery ==
    \/ \E x \in NodeQuerySamples : InterpolateZ(x)

SpecInterpQuery == InitInterpQuery /\ [][NextInterpQuery]_vars

(***************************************************************************)
(* SpecFactory: a PacketFactory on a stream, driven either by a caller     *)
(* that keeps calling next_packet (also after the end of the stream) or by *)
(* WIBLLoader.load, whose loop runs while has_more() and which then builds *)
(* the timebase.  The loader's identification metadata is not modelled.    *)
(***************************************************************************)

MaxWiblFrames == 2

MaxCalls == MaxWiblFrames + 3

\* serialise: the header and the payload; FrameClaiming writes another length
FrameClaiming(id, n, payload) == LE32(id) \o LE32(n) \o payload
Frame(id, payload) == FrameClaiming(id, Len(payload), payload)

\* date 2, timestamp 0.0, elapsed 5, then n zero bytes
TimedPayload(n) == LE16(2) \o Zeros(8) \o LE32(5) \o Zeros(n)

Double1 == << 0, 0, 0, 0, 0, 0, 240, 63 >>

\* A payload of each type that matches its layout
ValidPayload(t) ==
    CASE t = 0 -> LE16(1) \o LE16(3) \o Zeros(18)
      [] t = 1 -> TimedPayload(1)
      [] t \in {2, 3} -> TimedPayload(24)
      [] t = 4 -> TimedPayload(16)
      [] t = 5 -> LE16(2) \o Zeros(8) \o LE32(5) \o LE16(3) \o Double1 \o Zeros(63)
      [] t = 6 -> TimedPayload(26)
      [] t \in {7, 8, 9} -> TimedPayload(9)
      [] t = 10 -> LE32(7) \o << 90 >>
      [] t = 11 -> LE32(5) \o Zeros(28)
      [] t \in {12, 13} -> LE32(1) \o << 65 >> \o LE32(1) \o << 66 >>
      [] t \in {14, 16, 18} -> LE32(2) \o << 123, 125 >>
      [] t = 15 -> LE32(1) \o << 36 >>
      [] t = 17 -> LE32(5) \o Zeros(14)

\* A payload whose last length-prefixed string claims one byte more than is there
OverclaimingPayload(t) ==
    IF t \in {12, 13} THEN LE32(1) \o << 65 >> \o LE32(2) \o << 66 >>
    ELSE LE32(3) \o << 123, 125 >>

OldVersionPayload == LE16(1) \o LE16(2) \o Zeros(12)

SystemTimeFrame == Frame(1, ValidPayload(1))

DropLast(s) == SubSeq(s, 1, Len(s) - 1)

\* The payload of a type as written, one byte shorter and one byte longer
PayloadVariants(t) ==
    { ValidPayload(t), DropLast(ValidPayload(t)), ValidPayload(t) \o << 0 >> }

\* One frame of a recognised type whose header gives the length of the payload that
\* is there, and optionally a SystemTime frame after it
WholeFrames ==
    UNION { { Frame(t, q) \o g : q \in PayloadVariants(t), g \in { << >>, SystemTimeFrame } } :
              t \in PacketTypes }
    \cup { Frame(t, OverclaimingPayload(t)) \o g :
             t \in {12, 13, 14, 15, 16, 18}, g \in { << >>, SystemTimeFrame } }
    \cup { Frame(0, q) : q \in { OldVersionPayload, OldVersionPayload \o Zeros(6),
                                 DropLast(OldVersionPayload), Zeros(3) } }
    \cup { Frame(10, q) : q \in { << >>, Zeros(3), Zeros(4) } }

\* The stream ends inside the payload of a recognised type
CutFrames ==
    { FrameClaiming(t, Len(ValidPayload(t)), DropLast(ValidPayload(t))) : t \in PacketTypes }
    \cup { FrameClaiming(t, Len(ValidPayload(t)) + 2, ValidPayload(t)) : t \in PacketTypes }
    \cup { FrameClaiming(10, 100, LE32(7) \o << 90, 68 >>),
           FrameClaiming(1, 15, << >>), FrameClaiming(12, 10, << >>) }

\* Frames a logger file is put together from: observations the loader keeps, text
\* it cannot use, types it does not know, and payloads that fail to decode
FrameSamples ==
    { SystemTimeFrame,
      Frame(5, ValidPayload(5)),
      Frame(3, ValidPayload(3)),
      Frame(10, LE32(7) \o << 90 >>),
      Frame(10, LE32(9) \o << 32, 68, 10 >>),
      Frame(10, LE32(9) \o << 33 >>),
      Frame(10, LE32(9) \o << 255 >>),
      Frame(14, LE32(2) \o << 123, 125 >>),
      Frame(14, LE32(1) \o << 123 >>),
      Frame(12, LE32(1) \o << 255 >> \o LE32(1) \o << 66 >>),
      Frame(16, LE32(1) \o << 123 >>),
      Frame(1, DropLast(ValidPayload(1))),
      Frame(19, << >>),
      Frame(19, << 1, 2, 3 >>),
      Frame(2147483647, << 1 >>) }

RECURSIVE FrameSeqs(_)
FrameSeqs(n) ==
    IF n = 0 THEN { << >> }
    ELSE FrameSeqs(n - 1) \cup { s \o g : s \in FrameSeqs(n - 1), g \in FrameSamples }

\* Up to MaxWiblFrames frames and 0 to 7 bytes after the last of them
FramingStreams ==
    { s \o [i \in 1..k |-> 1] : s \in FrameSeqs(MaxWiblFrames), k \in 0..(HeaderSize - 1) }

\* SerialiserVersion frames around the baseline version 1.3, with the six or the
\* nine u16 that follow holding 1, 2, 3, ...
VersionFrames ==
    { Frame(0, LE16(v[1]) \o LE16(v[2]) \o body) :
        v \in { << 1, 3 >>, << 1, 2 >>, << 1, 4 >>, << 0, 9 >>, << 2, 0 >>, << 0, 1002 >>,
                << 0, 1003 >> },
        body \in { LE16(1) \o LE16(2) \o LE16(3) \o LE16(4) \o LE16(5) \o LE16(6),
                   LE16(1) \o LE16(2) \o LE16(3) \o LE16(4) \o LE16(5) \o LE16(6)
                     \o LE16(7) \o LE16(8) \o LE16(9) } }

Streams == FramingStreams \cup WholeFrames \cup CutFrames \cup VersionFrames

InitFactory ==
    /\ pc \in {"api", "wibl_load"}
    /\ file \in Streams
    /\ pos = 0
    /\ end_of_file = FALSE
    /\ log = << >>
    /\ written = None
    /\ DataIdle /\ YdvrIdle /\ CacheIdle /\ InterpIdle

\* The record of a call: its result, the state it started from, and what the
\* loader's loop did with it
LogEntry(r, outcome) ==
    r @@ [entry_pos |-> pos, entry_eof |-> end_of_file, loader |-> outcome]

\* A caller calls next_packet
NextPacketCall ==
    /\ pc = "api"
    /\ Len(log) < MaxCalls
    /\ LET Returned(r) ==
               /\ pos' = r.pos
               /\ end_of_file' = r.end_of_file
               /\ log' = Append(log, LogEntry(r, "n/a"))
       IN  Returned(next_packet(file, pos, end_of_file))
    /\ UNCHANGED << cacheVars, pc, file, written, dataVars, ydvrVars, interpVars >>

\* What one iteration of the loader's loop comes to
LoaderOutcome(r) ==
    LET Body(lp) ==
            IF lp.exc # "none" THEN lp.exc
            ELSE IF lp.packet = None THEN "ignored"
            ELSE "kept"
    IN  IF r.exc = "PacketTranscriptionError" THEN "pass"
        ELSE IF r.exc # "none" THEN r.exc
        ELSE IF r.rtn = None THEN "continue"
        ELSE Body(LoaderPacket(r.rtn))

\* One iteration of the loop of WIBLLoader.load
WIBLLoadStep ==
    /\ pc = "wibl_load"
    /\ has_more(end_of_file)
    /\ LET Keep(packet) ==
               /\ packets' = Append(packets, packet)
               /\ stats' = StatsObserved(stats, Name(packet))
           Iteration(r, outcome) ==
               /\ pos' = r.pos
               /\ end_of_file' = r.end_of_file
               /\ log' = Append(log, LogEntry(r, outcome))
               /\ IF outcome = "kept" THEN Keep(LoaderPacket(r.rtn).packet)
                  ELSE UNCHANGED << packets, stats >>
               /\ pc' = IF outcome \in {"pass", "continue", "ignored", "kept"}
                        THEN "wibl_load"
                        ELSE "wibl_raised"
           Returned(r) == Iteration(r, LoaderOutcome(r))
       IN  Returned(next_packet(file, pos, end_of_file))
    /\ UNCHANGED << cacheVars, file, written, timesrc, timebase, ydvrVars, interpVars >>

\* The loop is left and add_timebase runs
WIBLLoadEnd ==
    /\ pc = "wibl_load"
    /\ ~has_more(end_of_file)
    /\ LET src == determine_time_source(stats)
       IN  /\ timesrc' = src
           /\ IF src = "NoTimeSource"
              THEN pc' = "NoTimeSource" /\ timebase' = timebase
              ELSE pc' = "loaded" /\ timebase' = generate_timebase(packets, src)
    /\ UNCHANGED << cacheVars, stats, packets, ydvrVars, interpVars, pfVars >>

NextFactory ==
    \/ NextPacketCall
    \/ WIBLLoadStep
    \/ WIBLLoadEnd

SpecFactory == InitFactory /\ [][NextFactory]_vars

(***************************************************************************)
(* SpecWIBLLoad: WIBLLoader.load alone, its loop running until it is left. *)
(* The loader is sequential code that is not suspended, so a step that can *)
(* be taken is taken.                                                      *)
(***************************************************************************)

InitWIBLLoad == InitFactory /\ pc = "wibl_load"

NextWIBLLoad ==
    \/ WIBLLoadStep
    \/ WIBLLoadEnd

\* The interpreter runs the loop of load_data until it is left: weak fairness
\* of the loop's steps.  Both steps are enabled exactly while pc is
\* "wibl_load" and each changes vars, so WF_vars(NextWIBLLoad) is written
\* unfolded, []<>~ENABLED \/ []<><<step>>_vars
LoadLoopFair == []<>(pc # "wibl_load") \/ []<><<NextWIBLLoad>>_vars

SpecWIBLLoad == InitWIBLLoad /\ [][NextWIBLLoad]_vars /\ LoadLoopFair

(***************************************************************************)
(* SpecRoundTrip: a packet built by the data constructor of its class is   *)
(* written with serialise to an empty file, and the file is read back with *)
(* PacketFactory.next_packet.                                              *)
(***************************************************************************)

DateSamples      == {0, 2}
TimestampSamples == {0, 1}

\* The packets of a class laid out as '<HdI' and further fields
TimedBuilt(name, fieldSets) ==
    { DataPacket(name, d, ts, e) @@ [fields |-> f] :
        d \in DateSamples, ts \in TimestampSamples, e \in {0, 5}, f \in fieldSets }

GNSSFields == << 3, 2, 1, 2, 0, 1, 2, 3, 1, 2, 0, 1, 2, 3, 1 >>

\* What the data constructors build from the keyword values drawn.  The text
\* arguments of AlgorithmRequest, JSONMetadata and NMEA0183Filter are encoded by the
\* constructor; SensorScales and Setup load their dictionary from a text stream, and
\* Setup's constructor does not run that of DataPacket.
BuiltPackets ==
    TimedBuilt("SystemTime", { << 0 >>, << 1 >> })
    \cup TimedBuilt("Attitude", { << 1, 2, 0 >> })
    \cup TimedBuilt("Depth", { << 1, 2, 0 >> })
    \cup TimedBuilt("Course Over Ground", { << 1, 2 >> })
    \cup { q @@ [msg_date |-> q.fields[1], msg_timestamp |-> q.fields[2]] :
             q \in TimedBuilt("GNSS", { GNSSFields }) }
    \cup TimedBuilt("Environment", { << 1, 2, 2, 1, 2 >> })
    \cup TimedBuilt("Temperature", { << 0, 0 >>, << 1, 1 >>, << 1, 2 >> })
    \cup TimedBuilt("Humidity", { << 1, 2 >> })
    \cup TimedBuilt("Pressure", { << 1, 2 >> })
    \cup { DataPacket("SerialString", 0, 0, e) @@ [data |-> s] :
             e \in {0, 5}, s \in { << >>, << 90 >>, << 36, 255 >> } }
    \cup { DataPacket("SerialiserVersion", 0, 0, 0)
             @@ [major |-> v[1], minor |-> v[2], nmea2000 |-> << 1, 2, 3 >>,
                 nmea0183 |-> << 4, 5, 6 >>, imu |-> i] :
             v \in { << 1, 3 >>, << 1, 2 >>, << 0, 9 >>, << 2, 0 >> },
             i \in { << 0, 0, 0 >>, << 7, 8, 9 >> } }
    \cup { DataPacket("Motion", 0, 0, e)
             @@ [accel |-> << 1, 2, 0 >>, gyro |-> << 2, 1, 0 >>, temp |-> x] :
             e \in {0, 5}, x \in {0, 1} }
    \cup { DataPacket("RawIMU", 0, 0, e)
             @@ [accel |-> << 1, 2, 3 >>, gyro |-> << 4, 5, 6 >>, temp |-> x] :
             e \in {0, 5}, x \in {-1, 7} }
    \cup { DataPacket("Metadata", 0, 0, 0) @@ [logger_name |-> l, ship_name |-> s] :
             l \in { << >>, << 65 >>, << 233 >> }, s \in { << 66 >>, << 66, 233 >> } }
    \cup { DataPacket("AlgorithmRequest", 0, 0, 0)
             @@ [algorithm |-> utf8_encode(a), parameters |-> utf8_encode(b)] :
             a \in { << 65 >>, << 233 >> }, b \in { << >>, << 66 >> } }
    \cup { DataPacket("JSONMetadata", 0, 0, 0) @@ [metadata_element |-> utf8_encode(m)] :
             m \in { EmptyObjectText, << 123 >>, << 233 >> } }
    \cup { DataPacket("NMEA0183Filter", 0, 0, 0) @@ [recog_string |-> utf8_encode(s)] :
             s \in { << 36 >>, << 36, 71, 71, 65 >> } }
    \cup { DataPacket("SensorScales", 0, 0, 0) @@ [config |-> c] :
             c \in { EmptyObject, SetupObject } }
    \cup { [name |-> "Setup", setup |-> SetupObject] }

InitRoundTrip ==
    /\ pc = "built"
    /\ written \in BuiltPackets
    /\ file = << >> /\ pos = 0 /\ end_of_file = FALSE /\ log = << >>
    /\ DataIdle /\ YdvrIdle /\ CacheIdle /\ InterpIdle

\* written.serialise(f): an exception of payload() leaves the file empty
Serialise ==
    /\ pc = "built"
    /\ LET Done(s) ==
               IF s.exc # "none" THEN pc' = s.exc /\ file' = file
               ELSE pc' = "serialised" /\ file' = s.v
       IN  Done(serialise(written))
    /\ UNCHANGED << cacheVars, pos, end_of_file, log, written, dataVars, ydvrVars, interpVars >>

\* PacketFactory(f).next_packet() on the file written
ReadBack ==
    /\ pc = "serialised"
    /\ LET Returned(r) ==
               /\ pos' = r.pos
               /\ end_of_file' = r.end_of_file
               /\ log' = Append(log, LogEntry(r, "n/a"))
       IN  Returned(next_packet(file, pos, end_of_file))
    /\ pc' = "read"
    /\ UNCHANGED << cacheVars, file, written, dataVars, ydvrVars, interpVars >>

NextRoundTrip ==
    \/ Serialise
    \/ ReadBack

SpecRoundTrip == InitRoundTrip /\ [][NextRoundTrip]_vars

(***************************************************************************)
(* SpecAccess: an observation of one of the three classes is built and its *)
(* accessors are called.                                                   *)
(***************************************************************************)

MaxAccess == 2

\* What marulc's NMEA0183 parser makes of the sentences drawn
AccessN0183Messages ==
    { [unpack |-> "ok", Formatter |-> f,
       Fields |-> [day |-> 1, timestamp |-> 30, depth_meters |-> 12, is_float |-> fl,
                   lon |-> 7030, lon_dir |-> "W", lat |-> 4310, lat_dir |-> "N",
                   temperature |-> 15, units |-> "C"]] :
        f \in {"ZDA", "RMC", "DPT", "DBT", "GGA", "MTW", "VTG"}, fl \in BOOLEAN }

\* What marulc's unpack_complete_message makes of the frames drawn
AccessN2000Messages ==
    { [unpack |-> "ok", PGN |-> p,
       Fields |-> [date |-> 2, time |-> 40, msg_date |-> 3, msg_time |-> 50, source |-> s,
                   depth |-> 12, longitude |-> -70, latitude |-> 43, temperature |-> 288]] :
        p \in {126992, 127257, 128267, 129025, 129029, 130316, 65280}, s \in {0, 1} }

\* Decoded logger packets handed to ParsedN2000
AccessLoggerPackets ==
    { [name |-> n, date |-> 4, timestamp |-> 60, msg_date |-> 5, msg_timestamp |-> 70,
       depth |-> 12, longitude |-> -70, latitude |-> 43, tempSource |-> 0,
       temperature |-> 288] :
        n \in {"SystemTime", "GNSS", "Depth", "Temperature"} }

AccessObservations ==
    { RawN0183Obs(1, m) : m \in AccessN0183Messages }
    \cup { RawN2000Obs(1, m.PGN, m) : m \in AccessN2000Messages }
    \cup { ParsedN2000(1, d) : d \in AccessLoggerPackets }

InitAccess ==
    /\ pc = "access"
    /\ packets \in { << obs >> : obs \in AccessObservations }
    /\ stats = EmptyDict /\ timesrc = "unset" /\ timebase = EmptyDict
    /\ YdvrIdle /\ CacheIdle /\ InterpIdle /\ PfIdle

\* obs.Depth(), obs.Position(), obs.WaterTemperature() or obs.Timestamp()
Access(accessor) ==
    /\ pc = "access"
    /\ Len(log) < MaxAccess
    /\ LET Called(r) == log' = Append(log, [accessor |-> accessor, exc |-> r.exc, v |-> r.v])
       IN  Called(CallAccessor(packets[1], accessor))
    /\ UNCHANGED << cacheVars, pc, file, pos, end_of_file, written, dataVars, ydvrVars, interpVars >>

NextAccess ==
    \/ \E accessor \in Accessors : Access(accessor)

SpecAccess == InitAccess /\ [][NextAccess]_vars

(***************************************************************************)
(* cache/dcdb.py: CSBRestAPICache.update.  The main thread asks the index  *)
(* for page after page and submits one download task per item to a thread *)
(* pool; the pool runs at most max_concurrent_downloads tasks at a time,   *)
(* in the order submitted; leaving the with block waits for all of them.   *)
(* A file name is [stem, ext]; the index is a well-behaved server: it      *)
(* answers page p with the items of page p, "page": p and the number of    *)
(* pages.                                                                  *)
(***************************************************************************)

max_concurrent_downloads == 2

\* total_pages = None
NoPages == -1

\* download_object: filename.replace(".tar.gz", "") and then the object name,
\* which is also the name of the file in the flat cache directory
ObjectName(item) == item.stem

\* body["items"] and body["totalPages"] of the answer to a request for page p
BodyItems(lst, p) == IF p \in 1 .. Len(lst) THEN lst[p] ELSE << >>

BodyTotalPages(lst) == Len(lst)

\* A task as submitted
NewTask(item) == [item |-> item, state |-> "queued", opened |-> FALSE, result |-> "none"]

Running(ts) == { i \in 1 .. Len(ts) : ts[i].state \notin {"queued", "done"} }

\* The with block is left without waiting for the tasks
AllFinished_nowait(ts) == TRUE

\* ThreadPoolExecutor.__exit__: shutdown(wait=True) returns when every task is done
AllFinished(ts) == \A i \in 1 .. Len(ts) : ts[i].state = "done"

\* The condition of the loop of _iterate_pages
MorePages == total_pages = NoPages \/ page <= total_pages

FileStems == {"f1", "f2"}

ItemA  == [stem |-> "f1", ext |-> ".tar.gz"]
ItemB  == [stem |-> "f2", ext |-> ".tar.gz"]
ItemA0 == [stem |-> "f1", ext |-> ""]

\* The indexes drawn: no page, the two pages of the unit test, a page naming a file
\* twice, two names that give the same object, an empty page in the middle
ListingSamples ==
    { << >>,
      << << ItemA >>, << ItemB >> >>,
      << << ItemA, ItemA >> >>,
      << << ItemA, ItemB >>, << ItemA0 >> >>,
      << << ItemA >>, << >>, << ItemB >> >> }

InitCache ==
    /\ pc = "iterate"
    /\ listing \in ListingSamples
    /\ page = 1 /\ total_pages = NoPages /\ requested = << >> /\ next_item = 0
    /\ tasks = << >>
    /\ cache_dir \in [FileStems -> {"absent", "complete"}]
    /\ DataIdle /\ YdvrIdle /\ InterpIdle /\ PfIdle

\* _perform_request up to body = requests.get(...).json()
PerformRequest ==
    /\ pc = "iterate"
    /\ MorePages
    /\ requested' = Append(requested, page)
    /\ next_item' = 1
    /\ pc' = "submitting"
    /\ UNCHANGED << listing, page, total_pages, tasks, cache_dir, dataVars, ydvrVars,
                    interpVars, pfVars >>

\* requests.get of the index raises: _iterate_pages is left by the exception
RequestFails ==
    /\ pc = "iterate"
    /\ MorePages
    /\ requested' = Append(requested, page)
    /\ pc' = "shutdown_raised"
    /\ UNCHANGED << listing, page, total_pages, next_item, tasks, cache_dir, dataVars,
                    ydvrVars, interpVars, pfVars >>

\* executor.submit(download_object, ...) for the next item of the page
Submit ==
    /\ pc = "submitting"
    /\ next_item <= Len(BodyItems(listing, page))
    /\ tasks' = Append(tasks, NewTask(BodyItems(listing, page)[next_item]))
    /\ next_item' = next_item + 1
    /\ UNCHANGED << pc, listing, page, total_pages, requested, cache_dir, dataVars,
                    ydvrVars, interpVars, pfVars >>

\* return body["page"], body["totalPages"]; page += 1
PageReturn ==
    /\ pc = "submitting"
    /\ next_item > Len(BodyItems(listing, page))
    /\ total_pages' = BodyTotalPages(listing)
    /\ page' = page + 1
    /\ pc' = "iterate"
    /\ UNCHANGED << listing, requested, next_item, tasks, cache_dir, dataVars, ydvrVars,
                    interpVars, pfVars >>

\* The loop of _iterate_pages ends and the with block is left
IteratePagesEnd ==
    /\ pc = "iterate"
    /\ ~MorePages
    /\ pc' = "shutdown"
    /\ UNCHANGED << cacheVars, dataVars, ydvrVars, interpVars, pfVars >>

\* A free worker takes the oldest queued task; download_object up to
\* output_file_path.exists()
TaskStart(i) ==
    /\ i \in 1 .. Len(tasks)
    /\ tasks[i].state = "queued"
    /\ \A j \in 1 .. i - 1 : tasks[j].state # "queued"
    /\ Cardinality(Running(tasks)) < max_concurrent_downloads
    /\ tasks' = IF cache_dir[ObjectName(tasks[i].item)] # "absent"
                THEN [tasks EXCEPT ![i].state = "done", ![i].result = "skipped"]
                ELSE [tasks EXCEPT ![i].state = "get"]
    /\ UNCHANGED << pc, listing, page, total_pages, requested, next_item, cache_dir,
                    dataVars, ydvrVars, interpVars, pfVars >>

\* requests.get of the object: status 200, or another status or an exception, which
\* the except clause of download_object swallows
TaskGet(i, ok) ==
    /\ i \in 1 .. Len(tasks)
    /\ tasks[i].state = "get"
    /\ tasks' = IF ok THEN [tasks EXCEPT ![i].state = "open"]
                ELSE [tasks EXCEPT ![i].state = "done", ![i].result = "failed"]
    /\ UNCHANGED << pc, listing, page, total_pages, requested, next_item, cache_dir,
                    dataVars, ydvrVars, interpVars, pfVars >>

\* open(output_file_path, 'wb'): the file is created, or truncated
TaskOpen(i) ==
    /\ i \in 1 .. Len(tasks)
    /\ tasks[i].state = "open"
    /\ tasks' = [tasks EXCEPT ![i].state = "write", ![i].opened = TRUE]
    /\ cache_dir' = [cache_dir EXCEPT ![ObjectName(tasks[i].item)] = "partial"]
    /\ UNCHANGED << pc, listing, page, total_pages, requested, next_item, dataVars,
                    ydvrVars, interpVars, pfVars >>

\* The lines are written and the file is closed
TaskWrite(i) ==
    /\ i \in 1 .. Len(tasks)
    /\ tasks[i].state = "write"
    /\ tasks' = [tasks EXCEPT ![i].state = "done", ![i].result = "downloaded"]
    /\ cache_dir' = [cache_dir EXCEPT ![ObjectName(tasks[i].item)] = "complete"]
    /\ UNCHANGED << pc, listing, page, total_pages, requested, next_item, dataVars,
                    ydvrVars, interpVars, pfVars >>

\* The with block has waited for the tasks: update returns, or the exception of
\* _iterate_pages leaves it
Shutdown ==
    /\ pc \in {"shutdown", "shutdown_raised"}
    /\ AllFinished(tasks)
    /\ pc' = IF pc = "shutdown" THEN "returned" ELSE "raised"
    /\ UNCHANGED << cacheVars, dataVars, ydvrVars, interpVars, pfVars >>

NextCache ==
    \/ PerformRequest
    \/ RequestFails
    \/ Submit
    \/ PageReturn
    \/ IteratePagesEnd
    \/ \E i \in 1 .. Len(tasks) : TaskStart(i)
    \/ \E i \in 1 .. Len(tasks), ok \in BOOLEAN : TaskGet(i, ok)
    \/ \E i \in 1 .. Len(tasks) : TaskOpen(i)
    \/ \E i \in 1 .. Len(tasks) : TaskWrite(i)
    \/ Shutdown

SpecCache == InitCache /\ [][NextCache]_vars

(***************************************************************************)
(* SpecYdvrRead: next_packet of the YDVR adaptor called on a byte file     *)
(* until it reports the end of the file or raises.                         *)
(***************************************************************************)

MaxYdvrReads == 3

CANTopSamples == {0, 1, 24, 25, 255}

CANFormatSamples == {0, 100, 234, 239, 240, 248, 250, 255}

CANSpecificSamples == {0, 5, 255}

CANSourceSamples == {0, 35, 255}

CANIdSamples ==
    { [hi |-> top * 256 + pf, lo |-> ps * 256 + source] :
        top \in CANTopSamples, pf \in CANFormatSamples,
        ps \in CANSpecificSamples, source \in CANSourceSamples }

\* The bytes that follow the identifier: a (reserved, datalen) pair when read as
\* one, then data
YdvrBody == << 0, 5, 11, 12, 13, 14, 15, 16, 17, 18 >>

YdvrFrameBytes(elapsed, id, body) == LE16(elapsed) \o LE16(id.lo) \o LE16(id.hi) \o body

YdvrStreams ==
    { YdvrFrameBytes(7, id, YdvrBody) : id \in CANIdSamples }
    \cup { YdvrFrameBytes(7, f.id, f.body) \o YdvrFrameBytes(9, [hi |-> 248, lo |-> 35], YdvrBody) :
             f \in { [id |-> SentinelId, body |-> << 1, 2, 3, 4, 5, 6, 7, 8 >>],
                     [id |-> [hi |-> 234, lo |-> 35], body |-> << 1, 2, 3 >>],
                     [id |-> [hi |-> 6648, lo |-> 1315], body |-> << 0, 5, 11, 12, 13, 14, 15 >>] } }
    \cup { SubSeq(YdvrFrameBytes(7, [hi |-> 6648, lo |-> 1315], YdvrBody), 1, n) : n \in 0 .. 9 }

InitYdvrRead ==
    /\ pc = "ydvr_open"
    /\ file \in YdvrStreams
    /\ pos = 0 /\ end_of_file = FALSE /\ log = << >> /\ written = None
    /\ DataIdle /\ YdvrIdle /\ CacheIdle /\ InterpIdle

\* elapsed, pgn, packet = next_packet(f)
YdvrNextPacket ==
    /\ pc = "ydvr_open"
    /\ Len(log) < MaxYdvrReads
    /\ LET Returned(r) ==
               /\ log' = Append(log, r)
               /\ pos' = r.pos
               /\ pc' = IF r.exc # "none" THEN "ydvr_raised"
                        ELSE IF r.elapsed < 0 THEN "ydvr_end" ELSE pc
       IN  Returned(ydvr_next_packet(file, pos))
    /\ UNCHANGED << cacheVars, file, end_of_file, written, dataVars, ydvrVars, interpVars >>

NextYdvrRead ==
    \/ YdvrNextPacket

SpecYdvrRead == InitYdvrRead /\ [][NextYdvrRead]_vars

(***************************************************************************)
(* Claims                                                                  *)
(***************************************************************************)

\* The names whose observed counter is at least 1
ObservedNames(s) == {n \in DOMAIN s : s[n].observed >= 1}

\* The first source, in the order SystemTime, GNSS, ZDA, RMC, whose name is in S
FirstPreferred(S) ==
    IF "SystemTime" \in S THEN "Time_SysTime"
    ELSE IF "GNSS" \in S THEN "Time_GNSS"
    ELSE IF "ZDA" \in S THEN "Time_ZDA"
    ELSE IF "RMC" \in S THEN "Time_RMC"
    ELSE "NoTimeSource"

\* C1: on a PktStats built by Observed calls only, determine_time_source returns the
\* first source in the order SystemTime, GNSS, ZDA, RMC whose name has been observed,
\* and raises NoTimeSource exactly when none of the four names has been observed.
C1_TimeSourcePreference ==
    (pc = "selected" /\ TotalFaults(stats) = 0) =>
        /\ timesrc = FirstPreferred(ObservedNames(stats))
        /\ (timesrc = "NoTimeSource") <=>
               (ObservedNames(stats) \cap {"SystemTime", "GNSS", "ZDA", "RMC"} = {})

\* C1 witness: GNSS and ZDA observed (and nothing else) selects Time_GNSS
C1_Witness ==
    /\ pc = "selected"
    /\ TotalFaults(stats) = 0
    /\ ObservedNames(stats) = {"GNSS", "ZDA"}
    /\ timesrc = "Time_GNSS"

\* The indices of the messages generate_timebase is to take for a source
SelectedIdx(msgs, source) ==
    {i \in 1..Len(msgs) : HasTime(msgs[i]) /\ MatchesTimeSource(msgs[i], source)}

\* The k-th smallest member of a set of indices
KthIdx(S, k) == CHOOSE i \in S : Cardinality({j \in S : j <= i}) = k

\* C2: generate_timebase(messages, source) returns a table with the single dependent
\* variable 'ref' holding exactly one point (Elapsed(), Timestamp()) for each message
\* with HasTime() and MatchesTimeSource(source), in message order, and no other point.
C2_TimebasePoints ==
    pc = "done" =>
        LET S == SelectedIdx(packets, timesrc)
        IN  /\ DOMAIN timebase = {"ind", "ref"}
            /\ n_points(timebase) = Cardinality(S)
            /\ Len(timebase["ref"]) = Cardinality(S)
            /\ \A k \in 1..Cardinality(S) :
                   /\ timebase["ind"][k] = Elapsed(packets[KthIdx(S, k)])
                   /\ timebase["ref"][k] = Timestamp(packets[KthIdx(S, k)])

\* C2 witness: two of three messages are taken, the one between them is not
C2_Witness ==
    /\ pc = "done"
    /\ Len(packets) = 3
    /\ SelectedIdx(packets, timesrc) = {1, 3}
    /\ n_points(timebase) = 2
    /\ timebase["ind"] = << 2, 1 >>

\* C3: a RawN2000Obs built from a frame with PGN 129029 has name 'GNSS' and has_time
\* true (as PGN 126992 has name 'SystemTime' and has_time true), so it satisfies
\* HasTime() and MatchesTimeSource(Time_GNSS).
C3_GNSSHasTime ==
    \A i \in 1..Len(packets) :
        packets[i].kind = "RawN2000Obs" =>
            /\ (packets[i].data.PGN = 126992 =>
                    /\ Name(packets[i]) = "SystemTime"
                    /\ HasTime(packets[i])
                    /\ MatchesTimeSource(packets[i], "Time_SysTime"))
            /\ (packets[i].data.PGN = 129029 =>
                    /\ Name(packets[i]) = "GNSS"
                    /\ HasTime(packets[i])
                    /\ MatchesTimeSource(packets[i], "Time_GNSS"))

\* The number of wraps up to frame i: the frames j <= i whose raw elapsed is less
\* than that of frame j-1
Wraps(i) == Cardinality({j \in 2..i : frames[j].raw < frames[j - 1].raw})

\* C4: in YDVR loading the elapsed value given to frame i is raw_i + 65536 * w_i, w_i
\* being the number of frames j <= i whose raw elapsed is less than that of frame j-1.
C4_ElapsedUnwrap ==
    \A i \in 1..Len(frames) : frames[i].given = frames[i].raw + 65536 * Wraps(i)

Calls == 1..Len(log)

\* Bytes left in the stream when call i was made
Remaining(i) == Len(file) - log[i].entry_pos

\* The payload bytes call i read
PayloadRead(i) ==
    SubSeq(file, log[i].entry_pos + HeaderSize + 1, log[i].entry_pos + HeaderSize + log[i].got)

\* C6: for every recognised type_id (0..18), a header whose payload_len is larger
\* than the number of bytes remaining in the stream makes next_packet raise
\* PacketTranscriptionError: no packet is built from the short payload and no other
\* exception is raised.
C6_TruncatedPayloadRaises ==
    \A i \in Calls :
        (log[i].pkt_id \in PacketTypes /\ log[i].pkt_len > Remaining(i) - HeaderSize)
            => log[i].exc = "PacketTranscriptionError"

\* C7: when fewer than 8 bytes remain in the stream (0 to 7, the empty stream
\* included), next_packet returns None without raising and has_more() is false
\* afterwards.
C7_ShortHeaderEndsStream ==
    \A i \in Calls :
        Remaining(i) < 8
            => /\ log[i].rtn = None
               /\ log[i].exc = "none"
               /\ ~has_more(log[i].end_of_file)

\* A first call at the end of a stream that had a full frame and then 1 to 7 bytes
C7_Witness ==
    \E i \in Calls :
        /\ ~log[i].entry_eof
        /\ log[i].entry_pos > 0
        /\ Remaining(i) \in 1..7
        /\ log[i].rtn = None
        /\ ~has_more(end_of_file)

\* C8: end-of-stream is absorbing: once has_more() is false, every later
\* next_packet call returns None without reading from the file, and has_more() never
\* becomes true again.
C8_EndOfStreamAbsorbing ==
    [][ ~has_more(end_of_file)
          => /\ ~has_more(end_of_file')
             /\ log' # log
                  => /\ log'[Len(log')].rtn = None
                     /\ log'[Len(log')].exc = "none"
                     /\ log'[Len(log')].reads = 0
                     /\ pos' = pos ]_vars

\* Two calls were made after the end of the stream
C8_Witness ==
    \E i \in Calls :
        /\ i + 1 \in Calls
        /\ log[i].entry_eof
        /\ log[i + 1].entry_eof
        /\ log[i + 1].rtn = None
        /\ ~has_more(end_of_file)

\* The frame at offset p of the stream is a whole SystemTime frame
SystemTimeAt(p) ==
    /\ Len(file) - p >= Len(SystemTimeFrame)
    /\ SubSeq(file, p + 1, p + Len(SystemTimeFrame)) = SystemTimeFrame

\* Call i met a complete frame of a type outside 0..18
UnknownFrame(i) ==
    /\ log[i].pkt_id >= 0
    /\ log[i].pkt_id \notin PacketTypes
    /\ log[i].got = log[i].pkt_len

\* C9: for a complete frame whose type_id is not in 0..18, next_packet returns None
\* without raising, consumes exactly 8 + payload_len bytes and leaves has_more()
\* true; the next call decodes the frame that follows, and the WIBL loader goes on
\* with that frame.
C9_UnknownTypeSkipped ==
    \A i \in Calls :
        UnknownFrame(i)
            => /\ log[i].rtn = None
               /\ log[i].exc = "none"
               /\ log[i].pos = log[i].entry_pos + 8 + log[i].pkt_len
               /\ has_more(log[i].end_of_file)
               /\ log[i].loader \in {"n/a", "continue"}
               /\ pc \in {"loaded", "NoTimeSource", "wibl_raised"} => i + 1 \in Calls
               /\ i + 1 \in Calls
                    => /\ log[i + 1].entry_pos = log[i].pos
                       /\ ~log[i + 1].entry_eof
                       /\ log[i + 1].reads >= 1
                       /\ Len(file) - log[i].pos >= 8
                            => /\ log[i + 1].pkt_id = U32(file, log[i].pos)
                               /\ log[i + 1].pkt_len = U32(file, log[i].pos + 4)
                       /\ SystemTimeAt(log[i].pos)
                            => /\ log[i + 1].exc = "none"
                               /\ log[i + 1].rtn.name = "SystemTime"
                               /\ log[i + 1].rtn.date = 2
                               /\ log[i + 1].rtn.elapsed = 5
                               /\ log[i + 1].loader \in {"n/a", "kept"}

\* The loader skipped an unknown frame with a payload and kept the SystemTime
\* observation of the frame after it
C9_Witness ==
    \E i \in Calls :
        /\ UnknownFrame(i)
        /\ log[i].pkt_len > 0
        /\ log[i].loader = "continue"
        /\ i + 1 \in Calls
        /\ log[i + 1].rtn.name = "SystemTime"
        /\ log[i + 1].loader = "kept"
        /\ Len(packets) >= 1
        /\ packets[Len(packets)].name = "SystemTime"

\* The sizes of the fixed layouts (section 6 of the specification); SerialiserVersion
\* has two, selected by its version
FixedLayoutSize(t, payload) ==
    CASE t = 0 -> IF Len(payload) >= 4 /\ U16(payload, 0) * 1000 + U16(payload, 2) < 1003
                  THEN 16 ELSE 22
      [] t = 1 -> 15
      [] t \in {2, 3} -> 38
      [] t = 4 -> 30
      [] t = 5 -> 87
      [] t = 6 -> 40
      [] t \in {7, 8, 9} -> 23
      [] t = 11 -> 32
      [] t = 17 -> 18

\* The string field at base does not fit the payload: its count is cut, or it claims
\* more bytes than the payload holds
StringOverclaims(payload, base) ==
    \/ Len(payload) - base < 4
    \/ U32(payload, base) > Len(payload) - base - 4

\* The payload does not match the layout of its type
LayoutMismatch(t, payload) ==
    CASE t \in {0, 1, 2, 3, 4, 5, 6, 7, 8, 9, 11, 17} -> Len(payload) # FixedLayoutSize(t, payload)
      [] t = 10 -> Len(payload) < 4
      [] t \in {12, 13} -> \/ StringOverclaims(payload, 0)
                           \/ StringOverclaims(payload, 4 + U32(payload, 0))
      [] t \in {14, 15, 16, 18} -> StringOverclaims(payload, 0)

\* C10: for every recognised type_id, a fully read payload that does not match the
\* layout of its variant (shorter or longer than the fixed layout, or with a
\* length-prefixed string that claims more bytes than the payload holds) makes
\* next_packet raise PacketTranscriptionError and no other exception.
C10_LayoutMismatchRaises ==
    \A i \in Calls :
        (/\ log[i].pkt_id \in PacketTypes
         /\ log[i].got = log[i].pkt_len
         /\ LayoutMismatch(log[i].pkt_id, PayloadRead(i)))
            => log[i].exc = "PacketTranscriptionError"

(***************************************************************************)
(* Claims about serialise and the buffer constructors                      *)
(***************************************************************************)

\* The packet q has the class of p and every attribute of p with the same value
SamePacket(p, q) ==
    /\ q.name = p.name
    /\ \A a \in DOMAIN p : a \in DOMAIN q /\ q[a] = p[a]

\* C11: round trip.  For each of the 19 packet variants and every packet p built
\* from field values, writing p with serialise and reading the bytes back with
\* next_packet gives a packet of the same variant whose fields all equal those of p.
C11_RoundTrip ==
    /\ pc \in {"built", "serialised", "read"}
    /\ pc = "read" => /\ log[1].exc = "none"
                      /\ SamePacket(written, log[1].rtn)

\* The three u16 at offset base of a payload
Triple(payload, base) ==
    << U16(payload, base), U16(payload, base + 2), U16(payload, base + 4) >>

\* Call i read the whole payload of a SerialiserVersion frame that holds a version
VersionRead(i) ==
    /\ log[i].pkt_id = 0
    /\ log[i].got = log[i].pkt_len
    /\ log[i].got >= 4

\* The version a payload gives is below the baseline 1.3
BelowBaseline(payload) == U16(payload, 0) * 1000 + U16(payload, 2) < 1 * 1000 + 3

\* C12: SerialiserVersion decoding branches on major*1000+minor against the
\* baseline 1*1000+3: below it the decoder reads six u16 after major and minor
\* (the NMEA2000 and NMEA0183 triples) and the IMU version is (0,0,0); otherwise,
\* the baseline included, it reads nine u16 and all three triples come from the
\* payload.
C12_VersionBranch ==
    \A i \in Calls :
        VersionRead(i) =>
            LET P == PayloadRead(i)
            IN  /\ (BelowBaseline(P) /\ Len(P) >= 16)
                     => /\ log[i].exc = "none"
                        /\ log[i].rtn.major = U16(P, 0)
                        /\ log[i].rtn.minor = U16(P, 2)
                        /\ log[i].rtn.nmea2000 = Triple(P, 4)
                        /\ log[i].rtn.nmea0183 = Triple(P, 10)
                        /\ log[i].rtn.imu = << 0, 0, 0 >>
                /\ (~BelowBaseline(P) /\ Len(P) >= 22)
                     => /\ log[i].exc = "none"
                        /\ log[i].rtn.major = U16(P, 0)
                        /\ log[i].rtn.minor = U16(P, 2)
                        /\ log[i].rtn.nmea2000 = Triple(P, 4)
                        /\ log[i].rtn.nmea0183 = Triple(P, 10)
                        /\ log[i].rtn.imu = Triple(P, 16)
                /\ (~BelowBaseline(P) /\ Len(P) < 22)
                     => log[i].exc = "PacketTranscriptionError"

\* A version 1.2 payload in the six-u16 layout was decoded
C12_Witness ==
    \E i \in Calls :
        /\ VersionRead(i)
        /\ Len(PayloadRead(i)) = 16
        /\ U16(PayloadRead(i), 0) = 1 /\ U16(PayloadRead(i), 2) = 2
        /\ log[i].rtn.name = "SerialiserVersion"
        /\ log[i].rtn.nmea0183 = << 4, 5, 6 >>
        /\ log[i].rtn.imu = << 0, 0, 0 >>

(***************************************************************************)
(* C13: for every 32-bit CAN identifier other than 0xFFFFFFFF, with        *)
(* pf = (id >> 16) & 0xFF, ps = (id >> 8) & 0xFF and dp = (id >> 24) & 1,  *)
(* TranslateCANId gives pgn = (dp << 16) | (pf << 8) and destination = ps  *)
(* when pf < 240, and pgn = (dp << 16) | (pf << 8) | ps and destination =  *)
(* 0xFF when pf >= 240.                                                    *)
(***************************************************************************)

RECURSIVE BitOr(_, _)
BitOr(a, b) ==
    IF a = 0 THEN b
    ELSE IF b = 0 THEN a
    ELSE 2 * BitOr(a \div 2, b \div 2) + (IF a % 2 = 1 \/ b % 2 = 1 THEN 1 ELSE 0)

\* The calls of next_packet that read an identifier other than the sentinel
Translated == { i \in 1 .. Len(log) : Len(log[i].reads) >= 2 /\ log[i].exc = "none"
                                       /\ log[i].msgid # SentinelId }

CANFormat(id) == id.hi % 256

CANSpecific(id) == id.lo \div 256

CANDataPage(id) == (id.hi \div 256) % 2

C13_TranslateCANId ==
    \A i \in Translated :
        LET id == log[i].msgid
        IN  IF CANFormat(id) < 240
            THEN /\ log[i].pgn = BitOr(CANDataPage(id) * 65536, CANFormat(id) * 256)
                 /\ TranslateCANId(id).destination = CANSpecific(id)
            ELSE /\ log[i].pgn = BitOr(BitOr(CANDataPage(id) * 65536, CANFormat(id) * 256),
                                       CANSpecific(id))
                 /\ TranslateCANId(id).destination = 255

C13_Witness ==
    /\ \E i \in Translated : CANFormat(log[i].msgid) >= 240 /\ CANSpecific(log[i].msgid) = 5
                             /\ CANDataPage(log[i].msgid) = 1 /\ log[i].msgid.hi >= 32768
    /\ C13_TranslateCANId

(***************************************************************************)
(* C14: next_packet of the YDVR adaptor reads a payload of 3 bytes for     *)
(* PGN 59904, of 8 bytes for the sentinel 0xFFFFFFFF, of the datalen byte  *)
(* of an extra (reserved, datalen) pair for a multi-packet PGN, and of 8   *)
(* bytes otherwise; the extra two bytes are read only in the multi-packet  *)
(* case.                                                                   *)
(***************************************************************************)

\* The calls that came to read a payload
PayloadCalls == { i \in 1 .. Len(log) : log[i].exc = "none" /\ log[i].elapsed >= 0 }

\* The position at which call i started
EntryPos(i) == IF i = 1 THEN 0 ELSE log[i - 1].pos

IsMultiCall(i) ==
    /\ log[i].msgid # SentinelId
    /\ log[i].pgn # 59904
    /\ log[i].pgn \in multipackets

C14_PayloadLength ==
    \A i \in PayloadCalls :
        LET asked == log[i].reads[Len(log[i].reads)]
        IN  /\ log[i].pgn = 59904 => asked = 3 /\ log[i].reads = << 2, 4, 3 >>
            /\ log[i].msgid = SentinelId => asked = 8 /\ log[i].reads = << 2, 4, 8 >>
            /\ IsMultiCall(i) =>
                   /\ log[i].reads = << 2, 4, 2, asked >>
                   /\ asked = file[EntryPos(i) + 8]
                   /\ log[i].packet = Read(file, EntryPos(i) + 8, asked)
            /\ (~IsMultiCall(i) /\ log[i].pgn # 59904 /\ log[i].msgid # SentinelId) =>
                   /\ log[i].reads = << 2, 4, 8 >>
                   /\ log[i].packet = Read(file, EntryPos(i) + 6, 8)

C14_Witness ==
    /\ Len(log) >= 2
    /\ 1 \in PayloadCalls /\ IsMultiCall(1) /\ Len(log[1].packet) = 5
    /\ 2 \in PayloadCalls /\ ~IsMultiCall(2) /\ Len(log[2].packet) = 8
    /\ C14_PayloadLength


(***************************************************************************)
(* C15: the time source selected depends only on the names with an         *)
(* observed count of at least 1: a name registered only through Fault      *)
(* (observed = 0) is not selected, and NoTimeSource is raised when none of *)
(* SystemTime, GNSS, ZDA, RMC has observed >= 1.                           *)
(***************************************************************************)

\* The names registered in the statistics with no observation
FaultOnlyNames(s) == {n \in DOMAIN s : s[n].observed = 0}

C15_ObservedOnly ==
    pc = "selected" =>
        /\ timesrc = FirstPreferred(ObservedNames(stats))
        /\ \A n \in FaultOnlyNames(stats) : timesrc # FirstPreferred({n})
        /\ (ObservedNames(stats) \cap {"SystemTime", "GNSS", "ZDA", "RMC"} = {}) =>
               timesrc = "NoTimeSource"


(***************************************************************************)
(* C16: in every loader pass a record that fails with BadData is discarded *)
(* and every following record is still processed; the pass is abandoned    *)
(* only when the byte source itself cannot be read.  Here for the WIBL     *)
(* loader: the loop is never left on BadData.                              *)
(***************************************************************************)

\* The loader's loop was left by BadData raised for the record read last, with
\* a further record in the file
AbandonedOnBadData ==
    /\ pc = "wibl_raised"
    /\ Len(log) >= 1
    /\ log[Len(log)].loader = "BadData"
    /\ Len(file) - pos >= HeaderSize

C16_BadDataDiscarded == ~AbandonedOnBadData


(***************************************************************************)
(* C17: one NMEA0183 sentence with a bad checksum, taken as input,         *)
(* increases chksum_fault under that sentence's name by exactly 1, and the *)
(* fault does not change observed.  Here for the WIBL loader: the step     *)
(* that reads such a sentence raises chksum_fault of one name by 1 and     *)
(* leaves every observed count as it was.                                  *)
(***************************************************************************)

\* chksum_fault of a name, 0 for a name not registered
ChksumFaultOf(s, n) == IF n \in DOMAIN s THEN s[n].chksum_fault ELSE 0

ObservedOf(s, n) == IF n \in DOMAIN s THEN s[n].observed ELSE 0

\* The step reads a serial string whose sentence fails its checksum
BadChecksumRead ==
    /\ pc = "wibl_load"
    /\ Len(log') = Len(log) + 1
    /\ log'[Len(log')].exc = "none"
    /\ log'[Len(log')].rtn.name = "SerialString"
    /\ IsUTF8(log'[Len(log')].rtn.data)
    /\ NMEA0183Unpack(Strip(log'[Len(log')].rtn.data)).unpack = "ChecksumError"

ChecksumFaultCounted ==
    /\ \E n \in DOMAIN stats' :
           /\ ChksumFaultOf(stats', n) = ChksumFaultOf(stats, n) + 1
           /\ \A m \in DOMAIN stats' \ {n} : ChksumFaultOf(stats', m) = ChksumFaultOf(stats, m)
    /\ \A n \in DOMAIN stats' : ObservedOf(stats', n) = ObservedOf(stats, n)

C17_ChecksumFaultCounted == [][BadChecksumRead => ChecksumFaultCounted]_vars


(***************************************************************************)
(* C18: for every observation kind, Depth(), Position(),                   *)
(* WaterTemperature() or Timestamp() called on an observation whose name   *)
(* does not carry that quantity raises BadData; it never returns a value   *)
(* and never raises another exception.                                     *)
(***************************************************************************)

\* The names that carry the quantity an accessor gives
CarryingNames(accessor) ==
    CASE accessor = "Depth" -> {"DPT", "DBT", "Depth"}
      [] accessor = "Position" -> {"GGA", "GNSS", "Position, Rapid Update"}
      [] accessor = "WaterTemperature" -> {"MTW", "WaterTemperature"}
      [] accessor = "Timestamp" -> {"ZDA", "RMC", "SystemTime", "GNSS"}

C18_UndefinedAccessorRaises ==
    \A i \in 1 .. Len(log) :
        Name(packets[1]) \notin CarryingNames(log[i].accessor) => log[i].exc = "BadData"


(***************************************************************************)
(* C19: a failed insertion is atomic: add_point or add_points naming an    *)
(* unregistered variable raises NoSuchVariable, and add_points with a      *)
(* different number of names and values raises NotEnoughValues; in both    *)
(* cases the independent sequence and every dependent sequence are exactly *)
(* as before the call.                                                     *)
(***************************************************************************)

Unregistered(names) == \E k \in 1 .. Len(names) : names[k] \notin DOMAIN table

FailedAddPoint ==
    \A x \in IndSamples, value \in ValueSamples :
        AddPoint(x, "nope", value) => table_op' = "NoSuchVariable" /\ table' = table

FailedAddPoints ==
    \A x \in IndSamples, names \in NameLists, values \in ValueLists :
        AddPoints(x, names, values) =>
            /\ Unregistered(names) => table_op' = "NoSuchVariable" /\ table' = table
            /\ (~Unregistered(names) /\ Len(names) # Len(values)) =>
                   table_op' = "NotEnoughValues" /\ table' = table

C19_FailedInsertAtomic == [][FailedAddPoint /\ FailedAddPoints]_vars

C19_Witness ==
    /\ table_op = "NotEnoughValues"
    /\ n_points(table) >= 1
    /\ "z" \in DOMAIN table /\ Len(table["z"]) >= 1

(***************************************************************************)
(* C20: the query operations interpolate, var, ind and n_points never      *)
(* change the table: after any of them, whether it returns or raises, the  *)
(* independent sequence and all dependent sequences are unchanged and keep *)
(* their insertion order.                                                  *)
(***************************************************************************)

QueryStep ==
    \/ \E yvars \in NameLists, x \in QuerySamples : Interpolate(yvars, x)
    \/ \E name \in DOMAIN table \cup {"nope"} : Var(name)
    \/ Ind
    \/ NPoints

C20_QueriesPure == [][QueryStep => table' = table]_vars

C20_Witness ==
    /\ table_op = "interpolate"
    /\ n_points(table) >= 2

(***************************************************************************)
(* C21: for a table whose nodes have increasing independent values,        *)
(* interpolate returns at each query x the piecewise-linear value between  *)
(* the two bracketing nodes, and the value of the first or last node when  *)
(* x lies outside the node range: nodes (0,10) and (10,20) give 15 at x=5  *)
(* and 20 at x=20.                                                         *)
(***************************************************************************)

\* The fraction f is the value at x of the line through (x1, y1) and (x2, y2)
OnSegment(f, x, x1, y1, x2, y2) ==
    (f.num - y1 * f.den) * (x2 - x1) = (x - x1) * (y2 - y1) * f.den

\* The fraction f is the number y
IsNumber(f, y) == f.num = y * f.den

\* A query was answered on a table with at least one node, the nodes increasing
QueriedIncreasing ==
    /\ pc = "queried"
    /\ n_points(table) >= 1
    /\ Increasing(ind(table))

C21_PiecewiseLinear ==
    QueriedIncreasing =>
        LET xp == ind(table)
            fp == var(table, "z")
            x  == log[1].x
        IN  /\ log[1].raised = "none"
            /\ Len(log[1].rtn) = 1
            /\ x <= xp[1] => IsNumber(log[1].rtn[1], fp[1])
            /\ x >= xp[Len(xp)] => IsNumber(log[1].rtn[1], fp[Len(fp)])
            /\ \A i \in 1 .. Len(xp) - 1 :
                   (xp[i] <= x /\ x <= xp[i + 1]) =>
                       OnSegment(log[1].rtn[1], x, xp[i], fp[i], xp[i + 1], fp[i + 1])
            /\ (xp = << 0, 10 >> /\ fp = << 10, 20 >> /\ x = 5) => IsNumber(log[1].rtn[1], 15)
            /\ (xp = << 0, 10 >> /\ fp = << 10, 20 >> /\ x = 20) => IsNumber(log[1].rtn[1], 20)

C21_Witness ==
    /\ QueriedIncreasing
    /\ ind(table) = << 0, 10 >> /\ var(table, "z") = << 10, 20 >>
    /\ log[1].x = 20 /\ log[1].raised = "none" /\ IsNumber(log[1].rtn[1], 20)

(***************************************************************************)
(* C22: each PktStats update changes exactly one counter: Observed(name)   *)
(* registers name if absent and increases only that name's observed        *)
(* counter by 1; Fault(name, kind) registers name if absent and increases  *)
(* only that name's counter for kind by 1, leaving observed unchanged;     *)
(* counters of every other name are unchanged and no counter ever          *)
(* decreases.                                                              *)
(***************************************************************************)

\* The counter of StatCounters that a fault kind is counted in
FaultField(fault) ==
    CASE fault = "ParseFault"     -> "parse_fault"
      [] fault = "ShortMessage"   -> "short_msg"
      [] fault = "DecodeFault"    -> "decode_fault"
      [] fault = "AttributeFault" -> "attrib_fault"
      [] fault = "TypeFault"      -> "type_fault"
      [] fault = "ChecksumFault"  -> "chksum_fault"

\* The counters of a name, all zero for a name not registered
CountersOf(s, n) == IF n \in DOMAIN s THEN s[n] ELSE StatCounters

\* The step registers name and adds 1 to its counter field, and changes nothing else
OneCounterUp(name, field) ==
    /\ DOMAIN stats' = DOMAIN stats \cup {name}
    /\ \A n \in DOMAIN stats' : \A f \in DOMAIN StatCounters :
           stats'[n][f] = CountersOf(stats, n)[f] + (IF n = name /\ f = field THEN 1 ELSE 0)

NoCounterDown ==
    \A n \in DOMAIN stats : \A f \in DOMAIN StatCounters :
        n \in DOMAIN stats' /\ stats'[n][f] >= stats[n][f]

C22_OneCounterPerUpdate ==
    [][/\ \A name \in StatNames : Observed(name) => OneCounterUp(name, "observed")
       /\ \A name \in StatNames, fault \in PktFaults :
              Fault(name, fault) => OneCounterUp(name, FaultField(fault))
       /\ NoCounterDown]_vars

C22_Witness ==
    /\ pc = "stats"
    /\ DOMAIN stats = {"GNSS", "Depth"}
    /\ stats["GNSS"].observed = 1 /\ stats["GNSS"].decode_fault = 1
    /\ stats["Depth"].chksum_fault = 1 /\ stats["Depth"].observed = 0

(***************************************************************************)
(* C23: in every reachable PktStats state, Observed, Fault (with any of    *)
(* the six kinds), Seen and TotalCount never raise; FaultCount(name)       *)
(* raises NoSuchPacket exactly when name has never been registered, and a  *)
(* failing FaultCount or a Seen call does not register the name.           *)
(***************************************************************************)

\* The last call did not raise
LastReturned == log'[1].raised = "none"

C23_OnlyFaultCountRaises ==
    [][/\ \A name \in CallNames : ObservedCall(name) => LastReturned
       /\ \A name \in CallNames, fault \in PktFaults : FaultCall(name, fault) => LastReturned
       /\ \A name \in CallNames : SeenCall(name) => LastReturned /\ stats' = stats
       /\ TotalCountCall => LastReturned
       /\ \A name \in CallNames :
              FaultCountCall(name) =>
                  /\ (log'[1].raised = "NoSuchPacket") <=> (name \notin DOMAIN stats)
                  /\ log'[1].raised \in {"none", "NoSuchPacket"}
                  /\ stats' = stats]_vars

C23_Witness ==
    /\ pc = "stats"
    /\ Len(log) = 1 /\ log[1].call = "FaultCount" /\ log[1].raised = "NoSuchPacket"
    /\ log[1].name = "Depth"
    /\ DOMAIN stats = {"GNSS"}

(***************************************************************************)
(* C24: CSBRestAPICache.update returns only after every download task      *)
(* submitted for every item of every result page (pages 1..totalPages,     *)
(* each requested once) has finished; when every download succeeds, the    *)
(* cache directory holds the file of each listed item when update returns. *)
(***************************************************************************)

\* The items of all pages of the index, in order
RECURSIVE ListedItems(_, _)
ListedItems(lst, p) ==
    IF p > Len(lst) THEN << >> ELSE lst[p] \o ListedItems(lst, p + 1)

C24_UpdateWaits ==
    pc = "returned" =>
        /\ \A p \in 1 .. Len(listing) :
               Cardinality({ k \in 1 .. Len(requested) : requested[k] = p }) = 1
        /\ [i \in 1 .. Len(tasks) |-> tasks[i].item] = ListedItems(listing, 1)
        /\ \A i \in 1 .. Len(tasks) : tasks[i].state = "done"
        /\ (\A i \in 1 .. Len(tasks) : tasks[i].result # "failed") =>
               \A i \in 1 .. Len(tasks) : cache_dir[ObjectName(tasks[i].item)] = "complete"

C24_Witness ==
    /\ pc = "returned"
    /\ Len(listing) = 2
    /\ Len(tasks) = 2
    /\ \A i \in 1 .. Len(tasks) : tasks[i].result = "downloaded"
    /\ cache_dir = [f \in FileStems |-> "complete"]

(***************************************************************************)
(* C27: a cache file is written by at most one download task and an        *)
(* existing file is never rewritten: for any list of items handed to the   *)
(* thread pool, including two items with the same fileName running         *)
(* concurrently, at most one task opens a given output file for writing.   *)
(***************************************************************************)

\* The tasks that have opened the file f for writing
Openers(f) == { i \in 1 .. Len(tasks) : tasks[i].opened /\ ObjectName(tasks[i].item) = f }

C27_SingleWriter == \A f \in DOMAIN cache_dir : Cardinality(Openers(f)) <= 1

(***************************************************************************)
(* C25: in YDVR loading, when the raw elapsed values come from a strictly  *)
(* increasing millisecond counter reduced modulo 65536, with less than one *)
(* full period between consecutive frames, the unwrapped elapsed values    *)
(* given to consecutive frames are strictly increasing, also across a wrap *)
(* (e.g. raw 65535 followed by raw 0).                                     *)
(***************************************************************************)

\* The raw values of frames 1..j can come from such a counter: the counter has
\* advanced by (raw_k - raw_(k-1)) mod 65536, which is between 1 and 65535 exactly
\* when the two raw values differ
FromIncreasingCounter(j) ==
    \A k \in 2 .. j : (frames[k].raw - frames[k - 1].raw) % 65536 \in 1 .. 65535

C25_UnwrappedIncreasing ==
    \A j \in 2 .. Len(frames) :
        FromIncreasingCounter(j) => frames[j].given > frames[j - 1].given

(***************************************************************************)
(* C26: for every finite input byte stream, the WIBL load loop (while      *)
(* has_more(): next_packet()) terminates: every next_packet call either    *)
(* consumes at least 8 bytes of the stream or sets end-of-file, including  *)
(* the calls that raise PacketTranscriptionError and the calls that drop   *)
(* an unknown packet.                                                      *)
(***************************************************************************)

\* Call i consumed a header at least, or set end_of_file
CallProgresses(i) ==
    \/ log[i].pos - log[i].entry_pos >= HeaderSize
    \/ log[i].end_of_file

\* The loop of the loader has been left
LoadLoopLeft == pc \in {"loaded", "NoTimeSource", "wibl_raised"}

C26_LoadLoopTerminates ==
    /\ [](\A i \in 1 .. Len(log) : CallProgresses(i))
    /\ <>LoadLoopLeft

C26_Witness ==
    /\ LoadLoopLeft
    /\ \E i \in 1 .. Len(log) : log[i].exc = "PacketTranscriptionError" /\ CallProgresses(i)
    /\ \E i \in 1 .. Len(log) : log[i].loader = "continue" /\ CallProgresses(i)
    /\ log[Len(log)].end_of_file

(***************************************************************************)
(* C28: whenever a YDVR or WIBL load selects a time source without raising *)
(* NoTimeSource, the timebase it generates holds at least one point.       *)
(***************************************************************************)

\* load_data returned: a time source was selected and the timebase generated
LoadSelectedSource == pc = "loaded" /\ timesrc # "NoTimeSource"

C28_TimebaseHasPoint == LoadSelectedSource => n_points(timebase) >= 1

(***************************************************************************)
(* C29: after a YDVR load pass, TotalCount() equals the number of frames   *)
(* read, and the number of packets kept equals TotalCount() minus the sum  *)
(* of FaultCount(name) over the registered names.                          *)
(***************************************************************************)

\* The read loop of load_data was left at the end of the file
LoadPassDone == pc \in {"loaded", "NoTimeSource"}

C29_CountsAgree ==
    LoadPassDone =>
        /\ TotalCount(stats) = Len(frames)
        /\ Len(packets) = TotalCount(stats) - TotalFaultsOver(stats, DOMAIN stats)

C29_Witness ==
    /\ LoadPassDone
    /\ \E j \in 1 .. Len(frames) : frames[j].kept
    /\ \E j \in 1 .. Len(frames) : ~frames[j].kept
    /\ TotalCount(stats) = Len(frames)
    /\ TotalFaultsOver(stats, DOMAIN stats) >= 1
    /\ Len(packets) = TotalCount(stats) - TotalFaultsOver(stats, DOMAIN stats)

(***************************************************************************)
(* C30: every successful add_point or add_points call increases n_points() *)
(* by exactly 1, whatever registered variable name is passed, 'ind'        *)
(* included.                                                               *)
(***************************************************************************)

\* The step is an add_point or add_points call that returned without raising: no
\* other call changes the table
SuccessfulInsert == table_op' = "none" /\ table' # table

C30_InsertAddsOnePoint ==
    [][SuccessfulInsert => n_points(table)' = n_points(table) + 1]_vars

====
